---- MODULE Spec2Model ----
(***************************************************************************)
(* Model of the chat server (server.py), its durable store (database.py)   *)
(* and the records it exchanges (schemas.py).                              *)
(*                                                                         *)
(* One worker thread runs handle_client per accepted connection.  A        *)
(* request is drawn when the worker dispatches it.  A handler is one       *)
(* action, except where the code reads shared state and acts on it later   *)
(* without holding the lock (LOGIN: membership test, then bind).           *)
(* `ev' and `sent' record the last step taken and the frames it wrote.     *)
(***************************************************************************)
EXTENDS Integers, Sequences, FiniteSets, TLC

\* ---------------------------------------------------------------- bounds
MaxMsgs == 1
MaxInbox == 2

Conns == {1, 2}
Users == {"alice", "bob", "carol"}
SessionUsers == {"alice", "bob"}
Owner == <<{"alice"}, {"bob", "carol"}>>
RegNames == {"alice", "bob", "a"}
RegPasswords == {"", "pw"}
Passwords == {"", "pw", "bad"}
Contents == {<<>>, <<"hi">>}
FetchCounts == {0, 1}
Stamps == {1, 2}
OtherKinds == {"logout", "dm", "fetch", "mark_read", "delete", "delete_account", "chat"}

\* ---------------------------------------------------------------- values
None == "none"
NoConn == 0
\* the thread that runs start(): pc[Server] is "accept" while self.running
Server == 0
Absent == "absent"
NoData == [message_type |-> "no_data"]
DEFAULT_FETCH == 10

VARIABLES users, messages, nextId, clients, usernames, client_buffers,
          pc, username, cur, peer, closed, cleanups, ev, sent,
          codec, reqs, parts, buffer, emitted, decoded, sending, received, noise

dbvars == <<users, messages, nextId>>
regvars == <<clients, usernames, client_buffers>>
\* one connection's byte stream: the codec in use, the messages the sender
\* encodes, the segments still on their way, the receive buffer, the frames
\* the extractor has emitted, and what each codec made of the first message;
\* for the other direction, what is left of the frame each worker is writing
\* and the bytes the connection has taken; the bytes a client sends ahead of
\* its frames
wirevars == <<codec, reqs, parts, buffer, emitted, decoded, sending, received, noise>>
srvvars == <<users, messages, nextId, clients, usernames, client_buffers,
             pc, username, cur, peer, closed, cleanups, ev, sent>>
vars == <<users, messages, nextId, clients, usernames, client_buffers,
          pc, username, cur, peer, closed, cleanups, ev, sent,
          codec, reqs, parts, buffer, emitted, decoded, sending, received, noise>>

\* ------------------------------------------------------------ schemas.py
ChatMessage(u, content, type) ==
    [username |-> u, content |-> content, message_type |-> type,
     recipients |-> <<>>, message_id |-> 0, message_ids |-> {},
     active_users |-> <<>>, unread_count |-> -1, timestamp |-> 0]

ServerResponse(status, message, data, unread) ==
    [status |-> status, message |-> message, data |-> data, unread_count |-> unread]

Range(s) == {s[i] : i \in DOMAIN s}

RECURSIVE ListOf(_)
ListOf(S) ==
    IF S = {} THEN <<>>
    ELSE LET x == CHOOSE x \in S : TRUE
         IN <<x>> \o ListOf(S \ {x})

RECURSIVE SeqOfSet(_)
SeqOfSet(S) ==
    IF S = {} THEN <<>>
    ELSE LET x == CHOOSE x \in S : \A y \in S : x <= y
         IN <<x>> \o SeqOfSet(S \ {x})

\* ----------------------------------------------------------- database.py
\* every Database instance opens the same file: the methods act on one store
verify_user(u, password) == users[u] # Absent /\ users[u] = password

user_exists(u) == users[u] # Absent

get_all_users(us) == {u \in Users : us[u] # Absent}

\* variant: the id follows the largest id now in the table
autoincrement_rowid(msgs, seq) ==
    IF msgs = {} THEN 1
    ELSE (CHOOSE m \in msgs : \A o \in msgs : o.id <= m.id).id + 1

\* id INTEGER PRIMARY KEY AUTOINCREMENT: the id follows the largest id the
\* table has ever held, which seq is one more than
autoincrement(msgs, seq) == seq

store_message(msgs, id, message) ==
    msgs \cup {[id |-> id, sender |-> message.username,
                recipient |-> message.recipients[1],
                content |-> message.content, timestamp |-> message.timestamp,
                read |-> FALSE, delivered |-> FALSE]}

\* variant: counts the messages not yet delivered
get_unread_count_undelivered(msgs, recipient) ==
    Cardinality({m \in msgs : m.recipient = recipient /\ ~m.delivered})

get_unread_count(msgs, recipient) ==
    Cardinality({m \in msgs : m.recipient = recipient /\ ~m.read})

Earlier(m1, m2) ==
    \/ m1.timestamp < m2.timestamp
    \/ m1.timestamp = m2.timestamp /\ m1.id < m2.id

RECURSIVE OrderByTimestamp(_)
OrderByTimestamp(S) ==
    IF S = {} THEN <<>>
    ELSE LET m == CHOOSE m \in S : \A o \in S \ {m} : Earlier(m, o)
         IN <<m>> \o OrderByTimestamp(S \ {m})

Limit(s, n) == IF Len(s) <= n THEN s ELSE SubSeq(s, 1, n)

RowMessage(m, type) ==
    [ChatMessage(m.sender, m.content, type) EXCEPT
        !.message_id = m.id, !.recipients = <<m.recipient>>, !.timestamp = m.timestamp]

get_unread_messages(msgs, recipient, limit) ==
    LET rows == Limit(OrderByTimestamp({m \in msgs : m.recipient = recipient /\ ~m.read}), limit)
    IN [i \in DOMAIN rows |-> RowMessage(rows[i], "dm")]

Between(m, u1, u2) ==
    \/ m.sender = u1 /\ m.recipient = u2
    \/ m.sender = u2 /\ m.recipient = u1

get_messages_between_users(msgs, u1, u2, limit) ==
    LET rows == Limit(OrderByTimestamp({m \in msgs : Between(m, u1, u2)}), limit)
    IN [i \in DOMAIN rows |-> RowMessage(rows[i], "dm")]

\* variant: delivery also sets the read flag
mark_delivered_and_read(msgs, id) ==
    {IF m.id = id THEN [m EXCEPT !.delivered = TRUE, !.read = TRUE] ELSE m : m \in msgs}

mark_delivered(msgs, id) ==
    {IF m.id = id THEN [m EXCEPT !.delivered = TRUE] ELSE m : m \in msgs}

mark_read(msgs, ids, u) ==
    {IF m.id \in ids /\ m.recipient = u THEN [m EXCEPT !.read = TRUE] ELSE m : m \in msgs}

mark_read_from_user(msgs, recipient, sender) ==
    {IF m.sender = sender /\ m.recipient = recipient /\ ~m.read
     THEN [m EXCEPT !.read = TRUE] ELSE m : m \in msgs}

DeletedRows(msgs, ids, u, recipient) ==
    {m \in msgs : m.id \in ids /\ Between(m, u, recipient)}

delete_messages(msgs, ids, u, recipient) == msgs \ DeletedRows(msgs, ids, u, recipient)

\* variant: only the messages the user sent are deleted
delete_user_messages_sent_only(msgs, u) == {m \in msgs : m.sender # u}

delete_user_messages(msgs, u) == {m \in msgs : m.sender # u /\ m.recipient # u}

delete_user(us, u) == [us EXCEPT ![u] = Absent]

\* ----------------------------------------------------------- protocol.py
\* A byte string is a sequence of bytes 0..255 in which a negative element -n
\* stands for n consecutive bytes "x"; two such runs are never adjacent.
FILL == 120

Weight(e) == IF e < 0 THEN -e ELSE 1

\* the positions of the runs of b, and the bytes the runs in R stand for
\* beyond one each
Runs(b) == {i \in DOMAIN b : b[i] < 0}

RECURSIVE Surplus(_, _)
Surplus(b, R) ==
    IF R = {} THEN 0
    ELSE LET i == CHOOSE i \in R : TRUE
         IN (-b[i]) - 1 + Surplus(b, R \ {i})

\* len(b)
Size(b) == Len(b) + Surplus(b, Runs(b))

\* len of the first i elements of b, whose runs are at R
PrefixSize(b, i, R) == i + Surplus(b, {r \in R : r <= i})

\* a + b
Cat(a, b) ==
    IF a # <<>> /\ b # <<>> /\ a[Len(a)] < 0 /\ b[1] < 0
    THEN SubSeq(a, 1, Len(a) - 1) \o <<a[Len(a)] + b[1]>> \o Tail(b)
    ELSE a \o b

\* the number of leading elements of b, between lo and hi, that lie within
\* its first n bytes
RECURSIVE Within(_, _, _, _, _)
Within(b, n, lo, hi, R) ==
    IF lo = hi THEN lo
    ELSE LET mid == (lo + hi + 1) \div 2
         IN IF PrefixSize(b, mid, R) <= n
            THEN Within(b, n, mid, hi, R)
            ELSE Within(b, n, lo, mid - 1, R)

\* b[:n]
Take(b, n) ==
    IF n <= 0 THEN <<>>
    ELSE LET R == Runs(b)
             i == Within(b, n, 0, Len(b), R)
             rest == n - PrefixSize(b, i, R)
         IN SubSeq(b, 1, i) \o (IF i < Len(b) /\ rest > 0 THEN <<-rest>> ELSE <<>>)

\* b[n:]
Drop(b, n) ==
    IF n <= 0 THEN b
    ELSE LET R == Runs(b)
             i == Within(b, n, 0, Len(b), R)
             rest == n - PrefixSize(b, i, R)
         IN IF i = Len(b) THEN <<>>
            ELSE IF rest > 0 THEN <<b[i + 1] + rest>> \o SubSeq(b, i + 2, Len(b))
            ELSE SubSeq(b, i + 1, Len(b))

\* b[i:j]
Slice(b, i, j) == Take(Drop(b, i), j - i)

\* the bytes of a short byte string, one element each
RECURSIVE Expand(_)
Expand(b) ==
    IF b = <<>> THEN <<>>
    ELSE IF Head(b) < 0
         THEN [i \in 1..(-Head(b)) |-> FILL] \o Expand(Tail(b))
         ELSE <<Head(b)>> \o Expand(Tail(b))

\* int.from_bytes(b, "big")
RECURSIVE FromBytes(_)
FromBytes(b) ==
    IF b = <<>> THEN 0
    ELSE FromBytes(SubSeq(b, 1, Len(b) - 1)) * 256 + b[Len(b)]

\* struct.pack("!I", n), n.to_bytes(4, "big")
U32(n) == <<(n \div 16777216) % 256, (n \div 65536) % 256, (n \div 256) % 256, n % 256>>

\* struct.pack("!d", ts) for a timestamp of whole seconds
F64(ts) == U32(0) \o U32(ts)

\* struct.unpack_from of an n-byte unsigned field at offset
Unpack(data, offset, n) == FromBytes(Expand(Slice(data, offset, offset + n)))

\* Optional[T]: <<>> is None, <<v>> is the value v
OrElse(o, d) == IF o = <<>> THEN d ELSE o[1]

Optional(absent, v) == IF absent THEN <<>> ELSE <<v>>

\* enumerate(MessageType)
MESSAGE_TYPES ==
    <<"server_response", "login", "logout", "join", "register", "chat", "dm",
      "fetch", "mark_read", "delete", "delete_notification", "delete_account">>

TypeByte(type) == (CHOOSE i \in DOMAIN MESSAGE_TYPES : MESSAGE_TYPES[i] = type) - 1

IsMessageType(byte) == byte + 1 \in DOMAIN MESSAGE_TYPES

REVERSE_MESSAGE_TYPES(byte) ==
    IF IsMessageType(byte) THEN MESSAGE_TYPES[byte + 1] ELSE "chat"

serialize_string(s) == U32(Size(s)) \o s

deserialize_string(data, offset) ==
    LET length == Unpack(data, offset, 4)
    IN [s |-> Slice(data, offset + 4, offset + 4 + length),
        offset |-> offset + 4 + length]

RECURSIVE SerializeStrings(_)
SerializeStrings(list) ==
    IF list = <<>> THEN <<>>
    ELSE serialize_string(Head(list)) \o SerializeStrings(Tail(list))

RECURSIVE DeserializeStrings(_, _, _)
DeserializeStrings(data, offset, count) ==
    IF count = 0 THEN [list |-> <<>>, offset |-> offset]
    ELSE LET first == deserialize_string(data, offset)
             rest == DeserializeStrings(data, first.offset, count - 1)
         IN [list |-> <<first.s>> \o rest.list, offset |-> rest.offset]

\* CustomWireProtocol.serialize_message without its content check
CustomPayload(message) ==
    LET recipients == OrElse(message.recipients, <<>>)
        active_users == OrElse(message.active_users, <<>>)
    IN U32(OrElse(message.message_id, 0))
       \o serialize_string(message.username)
       \o serialize_string(message.content)
       \o F64(message.timestamp)
       \o <<Len(recipients)>> \o SerializeStrings(recipients)
       \o U32(OrElse(message.fetch_count, 0))
       \o serialize_string(OrElse(message.password, <<>>))
       \o <<Len(active_users)>> \o SerializeStrings(active_users)
       \o U32(OrElse(message.unread_count, 0))

Custom_serialize_message(message) ==
    LET payload == CustomPayload(message)
    IN <<TypeByte(message.message_type)>> \o U32(Size(payload)) \o payload

Custom_deserialize_message(data) ==
    LET msg_id == Unpack(data, 5, 4)
        u == deserialize_string(data, 9)
        content == deserialize_string(data, u.offset)
        ts == Unpack(data, content.offset, 8)
        rec_count == Unpack(data, content.offset + 8, 1)
        recipients == DeserializeStrings(data, content.offset + 9, rec_count)
        fetch_count == Unpack(data, recipients.offset, 4)
        password == deserialize_string(data, recipients.offset + 4)
        active_count == Unpack(data, password.offset, 1)
        active_users == DeserializeStrings(data, password.offset + 1, active_count)
        unread == Unpack(data, active_users.offset, 4)
    IN [message_id |-> Optional(msg_id = 0, msg_id),
        message_type |-> REVERSE_MESSAGE_TYPES(Unpack(data, 0, 1)),
        username |-> u.s,
        content |-> content.s,
        timestamp |-> ts,
        recipients |-> Optional(recipients.list = <<>>, recipients.list),
        fetch_count |-> Optional(fetch_count = 0, fetch_count),
        message_ids |-> <<>>,
        password |-> Optional(password.s = <<>>, password.s),
        active_users |-> Optional(active_users.list = <<>>, active_users.list),
        unread_count |-> Optional(unread = 0, unread)]

\* CustomWireProtocol.serialize_response for a SUCCESS response that carries
\* the embedded message data
Custom_serialize_response(message, unread_count, data) ==
    LET payload == <<0>> \o serialize_string(message) \o U32(OrElse(unread_count, 0))
                   \o <<1>> \o Custom_serialize_message(data)
    IN <<TypeByte("server_response")>> \o U32(Size(payload)) \o payload

MAX_CONTENT_SIZE == 1000000

\* the check both serialize_message methods start with
ContentOK(message) == Size(message.content) <= MAX_CONTENT_SIZE

\* CustomWireProtocol.frame_message
Custom_frame_message(data) == data

MAX_PAYLOAD_SIZE == 1000000

\* CustomWireProtocol.extract_message: the frame (<<>> for None in a one-element
\* option) and the buffer that is left
Custom_extract_message(buf) ==
    IF Size(buf) < 5 THEN [message |-> <<>>, buffer |-> buf]
    ELSE IF ~IsMessageType(Unpack(buf, 0, 1))
    THEN [message |-> <<>>, buffer |-> Drop(buf, 1)]
    ELSE LET payload_length == Unpack(buf, 1, 4)
             total_length == 1 + 4 + payload_length
         IN IF payload_length > MAX_PAYLOAD_SIZE
            THEN [message |-> <<>>, buffer |-> Drop(buf, 5)]
            ELSE IF Size(buf) < total_length
            THEN [message |-> <<>>, buffer |-> buf]
            ELSE [message |-> <<Take(buf, total_length)>>,
                  buffer |-> Drop(buf, total_length)]

\* JSONProtocol: the text model_dump_json writes and model_validate_json reads.
\* Strings are quoted and escaped, None is null, lists are arrays, integers
\* are decimal digits; the timestamp is a quoted string; every field name and
\* every enumeration value is abbreviated to one letter.
QUOTE == 34
BACKSLASH == 92
NEWLINE == 10
COMMA == 44
COLON == 58
JsonNull == <<110, 117, 108, 108>>

RECURSIVE JsonEscape(_)
JsonEscape(s) ==
    IF s = <<>> THEN <<>>
    ELSE (IF Head(s) = QUOTE THEN <<BACKSLASH, QUOTE>>
          ELSE IF Head(s) = BACKSLASH THEN <<BACKSLASH, BACKSLASH>>
          ELSE IF Head(s) = NEWLINE THEN <<BACKSLASH, 110>>
          ELSE <<Head(s)>>) \o JsonEscape(Tail(s))

JsonString(s) == <<QUOTE>> \o JsonEscape(s) \o <<QUOTE>>

RECURSIVE JsonInt(_)
JsonInt(n) == IF n < 10 THEN <<48 + n>> ELSE JsonInt(n \div 10) \o <<48 + (n % 10)>>

JsonValue(v, kind) == IF kind = "str" THEN JsonString(v) ELSE JsonInt(v)

RECURSIVE JsonItems(_, _)
JsonItems(list, kind) ==
    IF list = <<>> THEN <<>>
    ELSE IF Len(list) = 1 THEN JsonValue(list[1], kind)
    ELSE JsonValue(list[1], kind) \o <<COMMA>> \o JsonItems(Tail(list), kind)

JsonList(list, kind) == <<91>> \o JsonItems(list, kind) \o <<93>>

\* an Optional field: kind is "str", "int" or a list of them ("strs", "ints")
JsonField(o, kind) ==
    IF o = <<>> THEN JsonNull
    ELSE IF kind = "strs" THEN JsonList(o[1], "str")
    ELSE IF kind = "ints" THEN JsonList(o[1], "int")
    ELSE JsonValue(o[1], kind)

JsonKey(i) == <<QUOTE, 64 + i, QUOTE, COLON>>

\* JSONProtocol.serialize_message without its content check: the fields in
\* the order ChatMessage declares them
JSON_serialize_message(message) ==
    <<123>>
    \o JsonKey(1) \o JsonString(message.username) \o <<COMMA>>
    \o JsonKey(2) \o JsonString(message.content) \o <<COMMA>>
    \o JsonKey(3) \o JsonString(JsonInt(message.timestamp)) \o <<COMMA>>
    \o JsonKey(4) \o JsonString(<<97 + TypeByte(message.message_type)>>) \o <<COMMA>>
    \o JsonKey(5) \o JsonField(message.recipients, "strs") \o <<COMMA>>
    \o JsonKey(6) \o JsonField(message.message_id, "int") \o <<COMMA>>
    \o JsonKey(7) \o JsonField(message.fetch_count, "int") \o <<COMMA>>
    \o JsonKey(8) \o JsonField(message.message_ids, "ints") \o <<COMMA>>
    \o JsonKey(9) \o JsonField(message.password, "str") \o <<COMMA>>
    \o JsonKey(10) \o JsonField(message.active_users, "strs") \o <<COMMA>>
    \o JsonKey(11) \o JsonField(message.unread_count, "int")
    \o <<125>>

\* the parser: each function reads one value at element pos of data and
\* returns it with the position after it
RECURSIVE ParseChars(_, _)
ParseChars(data, pos) ==
    IF data[pos] = QUOTE THEN [v |-> <<>>, pos |-> pos + 1]
    ELSE IF data[pos] = BACKSLASH
    THEN LET rest == ParseChars(data, pos + 2)
         IN [v |-> <<IF data[pos + 1] = 110 THEN NEWLINE ELSE data[pos + 1]>> \o rest.v,
             pos |-> rest.pos]
    ELSE LET rest == ParseChars(data, pos + 1)
         IN [v |-> <<data[pos]>> \o rest.v, pos |-> rest.pos]

ParseString(data, pos) == ParseChars(data, pos + 1)

RECURSIVE ParseDigits(_, _, _)
ParseDigits(data, pos, acc) ==
    IF pos <= Len(data) /\ data[pos] \in 48..57
    THEN ParseDigits(data, pos + 1, acc * 10 + (data[pos] - 48))
    ELSE [v |-> acc, pos |-> pos]

ParseValue(data, pos, kind) ==
    IF kind = "str" THEN ParseString(data, pos) ELSE ParseDigits(data, pos, 0)

RECURSIVE ParseItems(_, _, _)
ParseItems(data, pos, kind) ==
    LET item == ParseValue(data, pos, kind)
    IN IF data[item.pos] = COMMA
       THEN LET rest == ParseItems(data, item.pos + 1, kind)
            IN [v |-> <<item.v>> \o rest.v, pos |-> rest.pos]
       ELSE [v |-> <<item.v>>, pos |-> item.pos + 1]

ParseList(data, pos, kind) ==
    IF data[pos + 1] = 93 THEN [v |-> <<>>, pos |-> pos + 2]
    ELSE ParseItems(data, pos + 1, kind)

ParseField(data, pos, kind) ==
    IF data[pos] = 110 THEN [v |-> <<>>, pos |-> pos + 4]
    ELSE LET value == IF kind = "strs" THEN ParseList(data, pos, "str")
                      ELSE IF kind = "ints" THEN ParseList(data, pos, "int")
                      ELSE ParseValue(data, pos, kind)
         IN [v |-> <<value.v>>, pos |-> value.pos]

\* JSONProtocol.deserialize_message: each value follows "{" or "," and a key
JSON_deserialize_message(data) ==
    LET u == ParseString(data, 6)
        content == ParseString(data, u.pos + 5)
        ts == ParseString(data, content.pos + 5)
        type == ParseString(data, ts.pos + 5)
        recipients == ParseField(data, type.pos + 5, "strs")
        message_id == ParseField(data, recipients.pos + 5, "int")
        fetch_count == ParseField(data, message_id.pos + 5, "int")
        message_ids == ParseField(data, fetch_count.pos + 5, "ints")
        password == ParseField(data, message_ids.pos + 5, "str")
        active_users == ParseField(data, password.pos + 5, "strs")
        unread == ParseField(data, active_users.pos + 5, "int")
    IN [message_id |-> message_id.v,
        message_type |-> REVERSE_MESSAGE_TYPES(type.v[1] - 97),
        username |-> u.v,
        content |-> content.v,
        timestamp |-> ParseDigits(ts.v, 1, 0).v,
        recipients |-> recipients.v,
        fetch_count |-> fetch_count.v,
        message_ids |-> message_ids.v,
        password |-> password.v,
        active_users |-> active_users.v,
        unread_count |-> unread.v]

\* JSONProtocol.frame_message
JSON_frame_message(data) == data \o <<NEWLINE>>

\* JSONProtocol.extract_message: partition at the first newline
JSON_extract_message(buf) ==
    LET newlines == {i \in DOMAIN buf : buf[i] = NEWLINE}
    IN IF newlines = {} THEN [message |-> <<>>, buffer |-> buf]
       ELSE LET i == CHOOSE i \in newlines : \A j \in newlines : i <= j
            IN [message |-> <<SubSeq(buf, 1, i - 1)>>,
                buffer |-> SubSeq(buf, i + 1, Len(buf))]

\* ProtocolFactory.create: the codec the server and its clients were started with
serialize_message(c, message) ==
    IF c = "json" THEN JSON_serialize_message(message)
    ELSE Custom_serialize_message(message)

deserialize_message(c, data) ==
    IF c = "json" THEN JSON_deserialize_message(data)
    ELSE Custom_deserialize_message(data)

frame_message(c, data) ==
    IF c = "json" THEN JSON_frame_message(data) ELSE Custom_frame_message(data)

extract_message(c, buf) ==
    IF c = "json" THEN JSON_extract_message(buf) ELSE Custom_extract_message(buf)

\* ------------------------------------------------------------- server.py
WriteOK(s) == ~closed[s] /\ peer[s] = "open"

Write(s, frame) == [to |-> s, ok |-> WriteOK(s), frame |-> frame]

send_to_client(s, message, unread) ==
    Write(s, ServerResponse("success", <<"new_message">>, message, unread))

send_error(s, text) == Write(s, ServerResponse("error", text, NoData, -1))

Failed(ws) == {ws[i].to : i \in {j \in DOMAIN ws : ~ws[j].ok}}

\* the sockets send_to_recipients writes to, given the registry it sees
Targets(message, exclude, cl, un) ==
    IF message.recipients # <<>>
    THEN LET online == SelectSeq(message.recipients,
                                 LAMBDA r : un[r] # NoConn /\ un[r] # exclude)
         IN [i \in DOMAIN online |-> un[online[i]]]
    ELSE SeqOfSet({x \in Conns : cl[x] # None} \ {exclude})

send_to_recipients(message, exclude, cl, un) ==
    LET ts == Targets(message, exclude, cl, un)
    IN [i \in DOMAIN ts |-> send_to_client(ts[i], message, -1)]

\* send_to_recipients, lines 331-343: the writes made inside "with self.lock";
\* the broadcast of lines 346-359 writes after the lock is released
LockedWrites(message, exclude, cl, un) ==
    IF message.recipients # <<>> THEN Len(Targets(message, exclude, cl, un)) ELSE 0

\* registry part of remove_client, under the lock
RemoveClients(cl, s) == [cl EXCEPT ![s] = None]

RemoveUsernames(cl, un, s) ==
    IF cl[s] # None THEN [un EXCEPT ![cl[s]] = NoConn] ELSE un

RemoveBuffers(cl, bufs, s) == IF cl[s] # None THEN bufs \ {s} ELSE bufs

LogoutNotice(cl, un, s, send_logout_message) ==
    IF cl[s] # None /\ send_logout_message
    THEN send_to_recipients(ChatMessage(cl[s], <<"logged_out", cl[s]>>, "logout"), s,
                            RemoveClients(cl, s), RemoveUsernames(cl, un, s))
    ELSE <<>>

\* remove_client(s, flag) run on the registry (cl, un) after the step wrote ws
\* and scheduled the cleanup threads sched
RemoveClient(s, flag, cl, un, ws, sched) ==
    LET notice == LogoutNotice(cl, un, s, flag)
    IN /\ clients' = RemoveClients(cl, s)
       /\ usernames' = RemoveUsernames(cl, un, s)
       /\ client_buffers' = RemoveBuffers(cl, client_buffers, s)
       /\ closed' = [closed EXCEPT ![s] = TRUE]
       /\ peer' = [peer EXCEPT ![s] = "closed"]
       /\ sent' = ws \o notice
       /\ cleanups' = (sched \cup Failed(notice))

\* the worker either goes on with its loop or leaves through the finally block;
\* after a request the loop condition self.running is tested before the next recv
Finish(s, exit, name, cl, un, ws, sched) ==
    IF exit \/ pc[Server] = "stopped"
    THEN /\ RemoveClient(s, name # None, cl, un, ws, cleanups \cup sched)
         /\ pc' = [pc EXCEPT ![s] = "done"]
         /\ username' = [username EXCEPT ![s] = None]
    ELSE /\ clients' = cl
         /\ usernames' = un
         /\ sent' = ws
         /\ cleanups' = cleanups \cup sched
         /\ pc' = [pc EXCEPT ![s] = "recv"]
         /\ username' = [username EXCEPT ![s] = name]
         /\ UNCHANGED <<client_buffers, closed, peer>>

\* no byte stream is followed
NoWire ==
    /\ codec = "json"
    /\ reqs = <<>>
    /\ parts = <<>>
    /\ buffer = <<>>
    /\ emitted = <<>>
    /\ decoded = <<>>
    /\ sending = <<>>
    /\ received = <<>>
    /\ noise = <<>>

Init ==
    /\ users = [u \in Users |-> Absent]
    /\ messages = {}
    /\ nextId = 1
    /\ clients = [s \in Conns |-> None]
    /\ usernames = [u \in Users |-> NoConn]
    /\ client_buffers = {}
    /\ pc = [t \in {Server} \cup Conns |-> IF t = Server THEN "accept" ELSE "idle"]
    /\ username = [s \in Conns |-> None]
    /\ cur = [s \in Conns |-> <<>>]
    /\ peer = [s \in Conns |-> "open"]
    /\ closed = [s \in Conns |-> FALSE]
    /\ cleanups = {}
    /\ ev = [kind |-> "idle", conn |-> NoConn]
    /\ sent = <<>>
    /\ NoWire


\* ------------------------------------------------- environment and accept
Idle == [kind |-> "idle", conn |-> NoConn]

\* the frames of the last step have reached their clients
Quiet == ev = Idle

\* receive_messages: the clients read what the last step wrote
Deliver ==
    /\ ~Quiet
    /\ UNCHANGED wirevars
    /\ ev' = Idle
    /\ sent' = <<>>
    /\ UNCHANGED <<dbvars, regvars, pc, username, cur, peer, closed, cleanups>>

\* start: accept() hands a new socket to a worker thread
Accept(s) ==
    /\ Quiet
    /\ pc[Server] = "accept"
    /\ pc[s] = "idle"
    /\ \A t \in Conns : t < s => pc[t] # "idle"
    /\ pc' = [pc EXCEPT ![s] = "recv"]
    /\ client_buffers' = client_buffers \cup {s}
    /\ UNCHANGED wirevars
    /\ ev' = [kind |-> "accept", conn |-> s]
    /\ sent' = <<>>
    /\ UNCHANGED <<dbvars, clients, usernames, username, cur, peer, closed, cleanups>>

\* the client goes away: from now on writes to s fail and recv sees the end
ClientClose(s) ==
    /\ Quiet
    /\ pc[s] \in {"recv", "register2", "login2"}
    /\ peer[s] = "open"
    /\ peer' = [peer EXCEPT ![s] = "closed"]
    /\ UNCHANGED wirevars
    /\ ev' = [kind |-> "client_close", conn |-> s]
    /\ sent' = <<>>
    /\ UNCHANGED <<dbvars, regvars, pc, username, cur, closed, cleanups>>

\* a worker may dispatch a request: it is in its loop, its socket and its
\* receive buffer are still there
Ready(s) == Quiet /\ pc[s] = "recv" /\ ~closed[s] /\ s \in client_buffers

\* handle_client: recv returns b"" or raises, or the buffer entry is gone
Disconnect(s) ==
    /\ Quiet
    /\ pc[s] = "recv"
    /\ peer[s] = "closed" \/ closed[s] \/ s \notin client_buffers
    /\ Finish(s, TRUE, username[s], clients, usernames, <<>>, {})
    /\ UNCHANGED wirevars
    /\ ev' = [kind |-> "disconnect", conn |-> s, user |-> username[s],
              registered |-> clients[s] # None,
              locked |-> LockedWrites(ChatMessage(clients[s], <<"logged_out", clients[s]>>, "logout"),
                                      s, RemoveClients(clients, s),
                                      RemoveUsernames(clients, usernames, s))]
    /\ UNCHANGED <<dbvars, cur>>

\* the thread send_to_recipients started after a failed write
ForcedCleanup(s) ==
    /\ Quiet
    /\ s \in cleanups
    /\ RemoveClient(s, TRUE, clients, usernames, <<>>, cleanups \ {s})
    /\ UNCHANGED wirevars
    /\ ev' = [kind |-> "forced_cleanup", conn |-> s, user |-> clients[s],
              registered |-> clients[s] # None]
    /\ UNCHANGED <<dbvars, pc, username, cur>>

\* shutdown, lines 690-694: remove_client on every socket of the registry
RECURSIVE RemoveEach(_, _)
RemoveEach(socks, st) ==
    IF socks = <<>> THEN st
    ELSE LET s == Head(socks)
             notice == LogoutNotice(st.cl, st.un, s, TRUE)
         IN RemoveEach(Tail(socks),
                       [cl |-> RemoveClients(st.cl, s),
                        un |-> RemoveUsernames(st.cl, st.un, s),
                        bufs |-> RemoveBuffers(st.cl, st.bufs, s),
                        ws |-> st.ws \o notice,
                        sched |-> st.sched \cup Failed(notice)])

\* shutdown: running becomes False, the registered sockets are removed and
\* closed, the listening socket is closed
Shutdown ==
    LET clients_to_remove == SeqOfSet({s \in Conns : clients[s] # None})
        r == RemoveEach(clients_to_remove,
                        [cl |-> clients, un |-> usernames, bufs |-> client_buffers,
                         ws |-> <<>>, sched |-> {}])
    IN /\ Quiet
       /\ pc[Server] = "accept"
       /\ pc' = [pc EXCEPT ![Server] = "stopped"]
       /\ clients' = r.cl
       /\ usernames' = r.un
       /\ client_buffers' = r.bufs
       /\ closed' = [s \in Conns |-> closed[s] \/ clients[s] # None]
       /\ peer' = [s \in Conns |-> IF clients[s] # None THEN "closed" ELSE peer[s]]
       /\ sent' = r.ws
       /\ cleanups' = cleanups \cup r.sched
       /\ UNCHANGED wirevars
       /\ ev' = [kind |-> "shutdown", conn |-> NoConn]
       /\ UNCHANGED <<dbvars, username, cur>>

\* handle_client, lines 414 and 627-635: deserialize_message raises on the
\* frame; the except clause prints, the finally block removes the client
DecodeError(s) ==
    /\ Ready(s)
    /\ Finish(s, TRUE, username[s], clients, usernames, <<>>, {})
    /\ UNCHANGED wirevars
    /\ ev' = [kind |-> "decode_error", conn |-> s, user |-> username[s]]
    /\ UNCHANGED <<dbvars, cur>>

\* ------------------------------------------------------- the byte stream
Codecs == {"json", "custom"}

\* the requests client.py builds, sent by user "a" at time 1
WireRequest(type, content, recipients, fetch_count, message_ids, password) ==
    [username |-> <<97>>, content |-> content, timestamp |-> 1,
     message_type |-> type, recipients |-> recipients, message_id |-> <<>>,
     fetch_count |-> fetch_count, message_ids |-> message_ids,
     password |-> password, active_users |-> <<>>, unread_count |-> <<>>]

\* "h", a quote and a line break; a content of the largest size allowed
WireContents == {<<104, QUOTE, NEWLINE>>, <<-MAX_CONTENT_SIZE>>}

Requests ==
    {WireRequest("login", <<>>, <<>>, <<>>, <<>>, <<<<112, 119>>>>),
     WireRequest("fetch", <<>>, <<>>, <<1>>, <<>>, <<>>),
     WireRequest("mark_read", <<>>, <<>>, <<>>, <<<<1, 2>>>>, <<>>)}
    \cup {WireRequest("dm", c, <<<<<<98>>>>>>, <<>>, <<>>, <<>>) : c \in WireContents}

\* what the sender writes for reqs: send_message frames each message
Frame(c, message) == frame_message(c, serialize_message(c, message))

Stream == Cat(Frame(codec, reqs[1]), Frame(codec, reqs[2]))

\* the places a stream can be cut: every byte boundary outside the runs, and
\* inside a run after its first byte and at its middle
Offsets(b) ==
    {PrefixSize(b, i, Runs(b)) : i \in 0..Len(b)}
    \cup UNION {{PrefixSize(b, i - 1, Runs(b)) + 1,
                 PrefixSize(b, i - 1, Runs(b)) + ((-b[i]) \div 2)} :
                i \in {j \in DOMAIN b : b[j] < -1}}

Cuts(b) == {k \in Offsets(b) : 0 < k /\ k < Size(b)}

\* handle_client, lines 404-412: frames are extracted until the extractor
\* returns None; the buffer it returned is kept
RECURSIVE ExtractAll(_, _, _)
ExtractAll(c, buf, out) ==
    LET r == extract_message(c, buf)
    IN IF r.message = <<>> THEN [buffer |-> r.buffer, emitted |-> out]
       ELSE ExtractAll(c, r.buffer, Append(out, r.message[1]))

\* the first message goes through each codec and back
RoundTrip ==
    /\ decoded = <<>> /\ parts = <<>> /\ buffer = <<>> /\ emitted = <<>>
    /\ ContentOK(reqs[1])
    /\ decoded' = <<JSON_deserialize_message(JSON_serialize_message(reqs[1])),
                    Custom_deserialize_message(Custom_serialize_message(reqs[1]))>>
    /\ UNCHANGED <<srvvars, codec, reqs, parts, buffer, emitted, sending, received, noise>>

\* send_message twice; the bytes travel in two segments cut at k; the empty
\* segment is the end of the stream
Send(k) ==
    /\ decoded # <<>> /\ parts = <<>> /\ buffer = <<>> /\ emitted = <<>>
    /\ ContentOK(reqs[1]) /\ ContentOK(reqs[2])
    /\ parts' = <<Take(Stream, k), Drop(Stream, k), <<>>>>
    /\ UNCHANGED <<srvvars, codec, reqs, buffer, emitted, decoded, sending, received, noise>>

\* handle_client, lines 397-412: recv returns the next segment, it is added
\* to the buffer and the complete frames are taken out
Receive ==
    /\ parts # <<>> /\ Head(parts) # <<>>
    /\ LET r == ExtractAll(codec, Cat(buffer, Head(parts)), emitted)
       IN /\ buffer' = r.buffer
          /\ emitted' = r.emitted
    /\ parts' = Tail(parts)
    /\ UNCHANGED <<srvvars, codec, reqs, decoded, sending, received, noise>>

\* what a client may send ahead of its frames: a byte that is no message
\* type, or the 5-byte header of a DM that announces a payload over the limit
BadHeaders == {<<255>>, <<TypeByte("dm")>> \o U32(MAX_PAYLOAD_SIZE + 1)}

NoisyStream == Cat(noise, Stream)

\* the client writes noise and its two frames; the bytes travel in two
\* segments cut at k (the second is empty when k is the whole stream); the
\* empty segment is the end of the stream
SendNoisy(k) ==
    /\ parts = <<>> /\ buffer = <<>> /\ emitted = <<>>
    /\ k \in Cuts(NoisyStream) \cup {Size(NoisyStream)}
    /\ parts' = <<Take(NoisyStream, k), Drop(NoisyStream, k), <<>>>>
    /\ UNCHANGED <<srvvars, codec, reqs, buffer, emitted, decoded, sending, received, noise>>

\* "new_message"
NEW_MESSAGE == <<110, 101, 119, 95, 109, 101, 115, 115, 97, 103, 101>>

\* send_to_client, lines 126-133: the frame of a message pushed to a client
ResponseFrame(message) ==
    Custom_frame_message(Custom_serialize_response(NEW_MESSAGE, <<>>, message))

\* the sizes of the next piece the connection may take of worker w's frame: a
\* frame that does not fit the send buffer at once is taken in two pieces
Pieces(w) ==
    IF sending[w] = <<>> THEN {}
    ELSE IF sending[w] = ResponseFrame(reqs[w])
    THEN Cuts(sending[w]) \cup {Size(sending[w])}
    ELSE {Size(sending[w])}

\* send_to_client, line 134: client_socket.send hands the frame to the
\* connection. Nothing gives the calling worker the socket for the length of
\* the call: bytes of another worker's frame may be taken between the pieces
SockSend(w, k) ==
    /\ sending # <<>>
    /\ k \in Pieces(w)
    /\ received' = Cat(received, Take(sending[w], k))
    /\ sending' = [sending EXCEPT ![w] = Drop(sending[w], k)]
    /\ UNCHANGED <<srvvars, codec, reqs, parts, buffer, emitted, decoded, noise>>

\* ------------------------------------------------------ pre-auth requests
\* variant: the error is written and the worker stays in its loop
PreAuthOther_keeps_going(s, kind) ==
    /\ Ready(s) /\ username[s] = None
    /\ Finish(s, FALSE, None, clients, usernames,
              <<send_error(s, <<"login_required">>)>>, {})
    /\ UNCHANGED wirevars
    /\ ev' = [kind |-> "login_required", conn |-> s, type |-> kind]
    /\ UNCHANGED <<dbvars, cur>>

PreAuthOther(s, kind) ==
    /\ Ready(s) /\ username[s] = None
    /\ Finish(s, TRUE, None, clients, usernames,
              <<send_error(s, <<"login_required">>)>>, {})
    /\ UNCHANGED wirevars
    /\ ev' = [kind |-> "login_required", conn |-> s, type |-> kind]
    /\ UNCHANGED <<dbvars, cur>>

\* validate_username on the names the clients here send
validate_username(u) ==
    IF u = "" THEN "username_required"
    ELSE IF u = "a" THEN "username_too_short"
    ELSE IF u = "a b" THEN "invalid_username"
    ELSE "ok"

RegisterOutcome(u, password) ==
    IF validate_username(u) # "ok" THEN validate_username(u)
    ELSE IF user_exists(u) THEN "user_exists"
    ELSE IF password = "" THEN "password_required"
    ELSE "ok"

\* variant: a refused REGISTER ends the connection, as a refused LOGIN does
RegisterCheck_closes(s, u, password) ==
    LET outcome == RegisterOutcome(u, password)
    IN /\ Ready(s) /\ username[s] = None
       /\ IF outcome = "ok"
          THEN /\ pc' = [pc EXCEPT ![s] = "register2"]
               /\ cur' = [cur EXCEPT ![s] = <<u, password>>]
               /\ sent' = <<>>
               /\ UNCHANGED <<regvars, closed, cleanups, peer, username>>
          ELSE /\ Finish(s, TRUE, None, clients, usernames,
                         <<send_error(s, <<outcome>>)>>, {})
               /\ UNCHANGED cur
       /\ UNCHANGED wirevars
       /\ ev' = [kind |-> "register_check", conn |-> s, user |-> u, outcome |-> outcome]
       /\ UNCHANGED dbvars

\* REGISTER, lines 432-468: the checks; a refusal is answered and the loop goes on
RegisterCheck(s, u, password) ==
    LET outcome == RegisterOutcome(u, password)
        err == send_error(s, <<outcome>>)
    IN /\ Ready(s) /\ username[s] = None
       /\ IF outcome = "ok"
          THEN /\ pc' = [pc EXCEPT ![s] = "register2"]
               /\ cur' = [cur EXCEPT ![s] = <<u, password>>]
               /\ sent' = <<>>
               /\ UNCHANGED <<regvars, closed, cleanups, peer, username>>
          ELSE /\ Finish(s, ~err.ok, None, clients, usernames, <<err>>, {})
               /\ UNCHANGED cur
       /\ UNCHANGED wirevars
       /\ ev' = [kind |-> "register_check", conn |-> s, user |-> u, outcome |-> outcome]
       /\ UNCHANGED dbvars

\* variant: the insert replaces a row that is already there
create_user_replaces(us, u, password) ==
    [ok |-> TRUE, users |-> [us EXCEPT ![u] = password]]

\* INSERT INTO users: refused when the username is already there
create_user(us, u, password) ==
    IF us[u] = Absent
    THEN [ok |-> TRUE, users |-> [us EXCEPT ![u] = password]]
    ELSE [ok |-> FALSE, users |-> us]

\* REGISTER, lines 470-491: create_user and the response
RegisterCreate(s) ==
    LET u == cur[s][1]
        created == create_user(users, u, cur[s][2])
        outcome == IF created.ok THEN "registration_success" ELSE "registration_failed"
        w == Write(s, ServerResponse(IF created.ok THEN "success" ELSE "error",
                                     <<outcome>>, NoData, -1))
    IN /\ Quiet
       /\ pc[s] = "register2"
       /\ users' = created.users
       /\ cur' = [cur EXCEPT ![s] = <<>>]
       /\ Finish(s, ~w.ok, None, clients, usernames, <<w>>, {})
       /\ UNCHANGED wirevars
       /\ ev' = [kind |-> "register", conn |-> s, user |-> u, outcome |-> outcome]
       /\ UNCHANGED <<messages, nextId>>

LoginOutcome(u, password) ==
    IF password = "" THEN "password_required"
    ELSE IF ~verify_user(u, password) THEN "invalid_credentials"
    ELSE IF usernames[u] # NoConn THEN "already_logged_in"
    ELSE "ok"

\* variant: a rejected LOGIN takes the name out of the registry
LoginCheck_unbinds(s, u, password) ==
    LET outcome == LoginOutcome(u, password)
    IN /\ Ready(s) /\ username[s] = None
       /\ IF outcome = "ok"
          THEN /\ pc' = [pc EXCEPT ![s] = "login2"]
               /\ cur' = [cur EXCEPT ![s] = <<u, password>>]
               /\ sent' = <<>>
               /\ UNCHANGED <<regvars, closed, cleanups, peer, username>>
          ELSE /\ Finish(s, TRUE, None, clients, [usernames EXCEPT ![u] = NoConn],
                         <<send_error(s, <<outcome>>)>>, {})
               /\ UNCHANGED cur
       /\ UNCHANGED wirevars
       /\ ev' = [kind |-> "login_check", conn |-> s, user |-> u, outcome |-> outcome,
                 holder |-> usernames[u]]
       /\ UNCHANGED dbvars

\* LOGIN, lines 494-528: the checks, made without the lock
LoginCheck(s, u, password) ==
    LET outcome == LoginOutcome(u, password)
    IN /\ Ready(s) /\ username[s] = None
       /\ IF outcome = "ok"
          THEN /\ pc' = [pc EXCEPT ![s] = "login2"]
               /\ cur' = [cur EXCEPT ![s] = <<u, password>>]
               /\ sent' = <<>>
               /\ UNCHANGED <<regvars, closed, cleanups, peer, username>>
          ELSE /\ Finish(s, TRUE, None, clients, usernames, <<send_error(s, <<outcome>>)>>, {})
               /\ UNCHANGED cur
       /\ UNCHANGED wirevars
       /\ ev' = [kind |-> "login_check", conn |-> s, user |-> u, outcome |-> outcome,
                 holder |-> usernames[u]]
       /\ UNCHANGED dbvars

LoginData(all_users, active_users) ==
    [ChatMessage("System", <<>>, "login") EXCEPT
        !.recipients = ListOf(all_users), !.active_users = ListOf(active_users)]

UnreadNotice(n) == ChatMessage("System", <<"unread_messages", n>>, "chat")

\* variant: the response is written before the JOIN broadcast
LoginWrites_response_first(join, resp) == <<resp>> \o join

\* LOGIN, lines 536-561: the JOIN broadcast, then the LOGIN SUCCESS response
LoginWrites(join, resp) == join \o <<resp>>

\* LOGIN, lines 530-574: bind under the lock, JOIN broadcast, response, unread notice
LoginBind(s) ==
    LET u == cur[s][1]
        cl == [clients EXCEPT ![s] = u]
        un == [usernames EXCEPT ![u] = s]
        join == send_to_recipients(ChatMessage(u, <<"joined", u>>, "join"), NoConn, cl, un)
        active == {x \in Users : un[x] # NoConn}
        resp == Write(s, ServerResponse("success", <<"login_success">>,
                                        LoginData(get_all_users(users), active), -1))
        unread_count == get_unread_count(messages, u)
        notice == IF unread_count > 0
                  THEN <<send_to_client(s, UnreadNotice(unread_count), -1)>> ELSE <<>>
    IN /\ Quiet
       /\ pc[s] = "login2"
       /\ cur' = [cur EXCEPT ![s] = <<>>]
       /\ IF resp.ok
          THEN Finish(s, FALSE, u, cl, un, LoginWrites(join, resp) \o notice, Failed(join))
          ELSE Finish(s, TRUE, u, cl, un, LoginWrites(join, resp), Failed(join))
       /\ UNCHANGED wirevars
       /\ ev' = [kind |-> "login", conn |-> s, user |-> u, unread |-> unread_count,
                 locked |-> LockedWrites(ChatMessage(u, <<"joined", u>>, "join"), NoConn, cl, un)]
       /\ UNCHANGED dbvars

\* ------------------------------------------------ authenticated requests
Authed(s) == Ready(s) /\ username[s] # None

OneRecipient == {<<>>} \cup {<<r>> : r \in Users}
Conversations == {<<>>, <<"alice", "bob">>, <<"alice", "carol">>, <<"bob", "carol">>}
IdSets == SUBSET (1..MaxMsgs)

Request(type, f, content, recips, ids, fetch_count, ts) ==
    [ChatMessage(f, content, type) EXCEPT
        !.recipients = recips, !.message_ids = ids, !.timestamp = ts]

\* LOGOUT, lines 577-579: break leaves the inner loop only
HandleLogout(s) ==
    /\ Authed(s)
    /\ Finish(s, FALSE, username[s], clients, usernames, <<>>, {})
    /\ UNCHANGED wirevars
    /\ ev' = [kind |-> "logout", conn |-> s, user |-> username[s]]
    /\ UNCHANGED <<dbvars, cur>>

Missing(recips) == SelectSeq(recips, LAMBDA r : ~user_exists(r))

\* variant: the recipients are not looked up
DmOutcome_unvalidated(message) ==
    IF message.recipients = <<>> THEN "no_recipients"
    ELSE IF message.content = <<>> THEN "empty_message"
    ELSE "stored"

DmOutcome(message) ==
    IF message.recipients = <<>> THEN "no_recipients"
    ELSE IF message.content = <<>> THEN "empty_message"
    ELSE IF Missing(message.recipients) # <<>> THEN "no_such_user"
    ELSE "stored"

\* handle_dm, lines 172-181: the writes to the online recipients, then the echo
DmWrites(stored) ==
    LET online == SelectSeq(stored.recipients, LAMBDA r : usernames[r] # NoConn)
        deliveries == [i \in DOMAIN online |-> send_to_client(usernames[online[i]], stored, -1)]
        echo == IF usernames[stored.username] # NoConn
                THEN <<send_to_client(usernames[stored.username], stored, -1)>> ELSE <<>>
    IN [deliveries |-> deliveries, echo |-> echo]

HandleDm(s, f, content, recips, ts) ==
    LET message == Request("dm", f, content, recips, {}, 0, ts)
        outcome == DmOutcome(message)
        id == autoincrement(messages, nextId)
        stored == [message EXCEPT !.message_id = id]
        w == DmWrites(stored)
        err == send_error(s, IF outcome = "empty_message" THEN <<"empty_message">>
                             ELSE <<"no_such_user", Missing(recips)[1]>>)
    IN /\ Authed(s)
       /\ CASE outcome = "no_recipients" ->
                 /\ Finish(s, FALSE, username[s], clients, usernames, <<>>, {})
                 /\ UNCHANGED dbvars
            [] outcome \in {"empty_message", "no_such_user"} ->
                 /\ Finish(s, ~err.ok, username[s], clients, usernames, <<err>>, {})
                 /\ UNCHANGED dbvars
            [] outcome = "stored" ->
                 /\ messages' = IF \E i \in DOMAIN w.deliveries : w.deliveries[i].ok
                                THEN mark_delivered(store_message(messages, id, message), id)
                                ELSE store_message(messages, id, message)
                 /\ nextId' = nextId + 1
                 /\ Finish(s, FALSE, username[s], clients, usernames,
                           w.deliveries \o w.echo, {})
                 /\ UNCHANGED users
       /\ UNCHANGED wirevars
       /\ ev' = [kind |-> "dm", conn |-> s, user |-> username[s], req |-> message,
                 outcome |-> outcome, id |-> IF outcome = "stored" THEN id ELSE 0]
       /\ UNCHANGED cur

\* handle_dm, lines 152-166, when every check passes: the recipient exists at
\* this moment; the insert is a later database transaction of its own
DmCheck(s, f, r) ==
    /\ Authed(s)
    /\ DmOutcome(Request("dm", f, <<"hi">>, <<r>>, {}, 0, 1)) = "stored"
    /\ pc' = [pc EXCEPT ![s] = "dm2"]
    /\ cur' = [cur EXCEPT ![s] = <<f, r>>]
    /\ sent' = <<>>
    /\ UNCHANGED wirevars
    /\ ev' = [kind |-> "dm_check", conn |-> s, user |-> username[s]]
    /\ UNCHANGED <<dbvars, regvars, username, peer, closed, cleanups>>

\* handle_dm, lines 169-181: the insert, the deliveries and the echo
DmStore(s) ==
    LET message == Request("dm", cur[s][1], <<"hi">>, <<cur[s][2]>>, {}, 0, 1)
        id == autoincrement(messages, nextId)
        stored == [message EXCEPT !.message_id = id]
        w == DmWrites(stored)
    IN /\ Quiet
       /\ pc[s] = "dm2"
       /\ messages' = IF \E i \in DOMAIN w.deliveries : w.deliveries[i].ok
                      THEN mark_delivered(store_message(messages, id, message), id)
                      ELSE store_message(messages, id, message)
       /\ nextId' = nextId + 1
       /\ Finish(s, FALSE, username[s], clients, usernames, w.deliveries \o w.echo, {})
       /\ cur' = [cur EXCEPT ![s] = <<>>]
       /\ UNCHANGED wirevars
       /\ ev' = [kind |-> "dm", conn |-> s, user |-> username[s], req |-> message,
                 outcome |-> "stored", id |-> id]
       /\ UNCHANGED users

\* handle_dm, lines 152-174: the message is stored and the membership test
\* "recipient in self.usernames" finds the recipient; the registry is read
\* without the lock, so the subscript of line 175 is a later step
DmLookup(s, f, r) ==
    LET message == Request("dm", f, <<"hi">>, <<r>>, {}, 0, 1)
        id == autoincrement(messages, nextId)
    IN /\ Authed(s)
       /\ DmOutcome(message) = "stored"
       /\ usernames[r] # NoConn
       /\ messages' = store_message(messages, id, message)
       /\ nextId' = nextId + 1
       /\ pc' = [pc EXCEPT ![s] = "dm3"]
       /\ cur' = [cur EXCEPT ![s] = <<f, r, id>>]
       /\ sent' = <<>>
       /\ UNCHANGED wirevars
       /\ ev' = [kind |-> "dm_lookup", conn |-> s, user |-> username[s]]
       /\ UNCHANGED <<users, regvars, username, peer, closed, cleanups>>

\* handle_dm, lines 175-181: self.usernames[recipient] raises KeyError when the
\* recipient's cleanup removed the entry after the test; the exception leaves
\* handle_dm and ends in handle_client's except and finally (lines 627-635)
DmDeliver(s) ==
    LET f == cur[s][1]
        r == cur[s][2]
        id == cur[s][3]
        message == Request("dm", f, <<"hi">>, <<r>>, {}, 0, 1)
        stored == [message EXCEPT !.message_id = id]
        delivery == send_to_client(usernames[r], stored, -1)
        echo == IF usernames[f] # NoConn
                THEN <<send_to_client(usernames[f], stored, -1)>> ELSE <<>>
    IN /\ Quiet
       /\ pc[s] = "dm3"
       /\ IF usernames[r] = NoConn
          THEN /\ Finish(s, TRUE, username[s], clients, usernames, <<>>, {})
               /\ UNCHANGED messages
          ELSE /\ Finish(s, FALSE, username[s], clients, usernames, <<delivery>> \o echo, {})
               /\ messages' = IF delivery.ok THEN mark_delivered(messages, id) ELSE messages
       /\ cur' = [cur EXCEPT ![s] = <<>>]
       /\ UNCHANGED wirevars
       /\ ev' = [kind |-> "dm", conn |-> s, user |-> username[s], req |-> message,
                 outcome |-> IF usernames[r] = NoConn THEN "key_error" ELSE "stored",
                 id |-> id]
       /\ UNCHANGED <<users, nextId>>

FetchLimit(fetch_count) == IF fetch_count = 0 THEN DEFAULT_FETCH ELSE fetch_count

FetchRows(f, recips, fetch_count) ==
    IF Len(recips) = 2
    THEN get_messages_between_users(messages, recips[1], recips[2], FetchLimit(fetch_count))
    ELSE get_unread_messages(messages, f, FetchLimit(fetch_count))

RECURSIVE MarkAllDelivered(_, _)
MarkAllDelivered(msgs, rows) ==
    IF rows = <<>> THEN msgs
    ELSE MarkAllDelivered(mark_delivered(msgs, Head(rows).message_id), Tail(rows))

HandleFetch(s, f, recips, fetch_count) ==
    LET rows == FetchRows(f, recips, fetch_count)
        total_unread == get_unread_count(messages, f)
        ws == [i \in DOMAIN rows |-> send_to_client(s, rows[i], total_unread)]
    IN /\ Authed(s)
       /\ messages' = IF WriteOK(s) THEN MarkAllDelivered(messages, rows) ELSE messages
       /\ Finish(s, FALSE, username[s], clients, usernames, ws, {})
       /\ UNCHANGED wirevars
       /\ ev' = [kind |-> "fetch", conn |-> s, user |-> username[s],
                 req |-> Request("fetch", f, <<>>, recips, {}, fetch_count, 0),
                 fetch_count |-> fetch_count]
       /\ UNCHANGED <<users, nextId, cur>>

CountNotice(n) == [ChatMessage("System", <<>>, "chat") EXCEPT !.unread_count = n]

HandleMarkRead(s, f, recips, ids) ==
    LET marked == IF recips # <<>> THEN mark_read_from_user(messages, f, recips[1])
                  ELSE IF ids # {} THEN mark_read(messages, ids, f)
                  ELSE messages
        ws == IF (recips # <<>> \/ ids # {}) /\ usernames[f] # NoConn
              THEN <<send_to_client(usernames[f], CountNotice(get_unread_count(marked, f)), -1)>>
              ELSE <<>>
    IN /\ Authed(s)
       /\ messages' = marked
       /\ Finish(s, FALSE, username[s], clients, usernames, ws, {})
       /\ UNCHANGED wirevars
       /\ ev' = [kind |-> "mark_read", conn |-> s, user |-> username[s],
                 req |-> Request("mark_read", f, <<>>, recips, ids, 0, 0)]
       /\ UNCHANGED <<users, nextId, cur>>

DeleteNotice(f, ids, n) ==
    [ChatMessage(f, <<>>, "delete_notification") EXCEPT !.message_ids = ids, !.unread_count = n]

HandleDelete(s, f, recips, ids) ==
    LET act == ids # {} /\ recips # <<>>
        rows == IF act THEN DeletedRows(messages, ids, f, recips[1]) ELSE {}
        users_to_notify == {f} \cup {m.recipient : m \in rows}
        decrement(u) == Cardinality({m \in rows : m.recipient = u /\ ~m.read})
        socks == SeqOfSet({usernames[u] : u \in {x \in users_to_notify : usernames[x] # NoConn}})
        ws == IF act
              THEN [i \in DOMAIN socks |->
                      send_to_client(socks[i],
                          DeleteNotice(f, ids, decrement(CHOOSE u \in Users : usernames[u] = socks[i])), -1)]
              ELSE <<>>
    IN /\ Authed(s)
       /\ messages' = messages \ rows
       /\ Finish(s, FALSE, username[s], clients, usernames, ws, {})
       /\ UNCHANGED wirevars
       /\ ev' = [kind |-> "delete", conn |-> s, user |-> username[s],
                 req |-> Request("delete", f, <<>>, recips, ids, 0, 0), rows |-> rows]
       /\ UNCHANGED <<users, nextId, cur>>

\* delete_messages, lines 361-377: the SELECT that collects (recipient,
\* was_unread) of the rows to delete; it runs outside a transaction, the
\* DELETE is a later statement
DeleteSelect(s, f, r, ids) ==
    /\ Authed(s)
    /\ ids # {}
    /\ pc' = [pc EXCEPT ![s] = "delete2"]
    /\ cur' = [cur EXCEPT ![s] = <<f, r, ids,
                   {[id |-> m.id, recipient |-> m.recipient, was_unread |-> ~m.read] :
                      m \in DeletedRows(messages, ids, f, r)}>>]
    /\ sent' = <<>>
    /\ UNCHANGED wirevars
    /\ ev' = [kind |-> "delete_select", conn |-> s, user |-> username[s]]
    /\ UNCHANGED <<dbvars, regvars, username, peer, closed, cleanups>>

\* delete_messages, lines 379-393, and handle_delete_messages, lines 283-313:
\* the DELETE removes the rows that match now and rowcount counts them; the
\* notifications are built from the rows the SELECT saw
DeleteCommit(s) ==
    LET f == cur[s][1]
        r == cur[s][2]
        ids == cur[s][3]
        deleted_info == cur[s][4]
        rows == DeletedRows(messages, ids, f, r)
        users_to_notify == {f} \cup {e.recipient : e \in deleted_info}
        decrement(u) == Cardinality({e \in deleted_info : e.recipient = u /\ e.was_unread})
        socks == SeqOfSet({usernames[u] : u \in {x \in users_to_notify : usernames[x] # NoConn}})
        ws == [i \in DOMAIN socks |->
                 send_to_client(socks[i],
                     DeleteNotice(f, ids, decrement(CHOOSE u \in Users : usernames[u] = socks[i])), -1)]
    IN /\ Quiet
       /\ pc[s] = "delete2"
       /\ messages' = messages \ rows
       /\ Finish(s, FALSE, username[s], clients, usernames, ws, {})
       /\ cur' = [cur EXCEPT ![s] = <<>>]
       /\ UNCHANGED wirevars
       /\ ev' = [kind |-> "delete", conn |-> s, user |-> username[s],
                 req |-> Request("delete", f, <<>>, <<r>>, ids, 0, 0), rows |-> rows,
                 deleted_count |-> Cardinality(rows), deleted_info |-> deleted_info]
       /\ UNCHANGED <<users, nextId>>

AccountDeleted(u, active) ==
    [ChatMessage("System", <<"account_deleted", u>>, "delete_account") EXCEPT
        !.recipients = ListOf(active)]

\* DELETE_ACCOUNT, lines 591-623: break leaves the inner loop only
HandleDeleteAccount(s) ==
    LET u == username[s]
        ok == user_exists(u)
        active == {x \in Users : usernames[x] # NoConn}
        us == delete_user(users, u)
        note == send_to_recipients(AccountDeleted(u, active), NoConn, clients, usernames)
        update == send_to_recipients(LoginData(get_all_users(us), active \ {u}),
                                     NoConn, clients, usernames)
    IN /\ Authed(s)
       /\ users' = IF ok THEN us ELSE users
       /\ messages' = IF ok THEN delete_user_messages(messages, u) ELSE messages
       /\ IF ok
          THEN Finish(s, FALSE, u, clients, usernames, note \o update,
                      Failed(note) \cup Failed(update))
          ELSE Finish(s, FALSE, u, clients, usernames, <<>>, {})
       /\ UNCHANGED wirevars
       /\ ev' = [kind |-> "delete_account", conn |-> s, user |-> u, ok |-> ok,
                 rows |-> {m \in messages : m.sender = u \/ m.recipient = u}]
       /\ UNCHANGED <<nextId, cur>>

\* any other kind, line 625: relayed by send_to_recipients
HandleOther(s, f, content, recips) ==
    LET message == Request("chat", f, content, recips, {}, 0, 0)
        ws == send_to_recipients(message, NoConn, clients, usernames)
    IN /\ Authed(s)
       /\ Finish(s, FALSE, username[s], clients, usernames, ws, Failed(ws))
       /\ UNCHANGED wirevars
       /\ ev' = [kind |-> "other", conn |-> s, user |-> username[s], req |-> message,
                 locked |-> LockedWrites(message, NoConn, clients, usernames)]
       /\ UNCHANGED <<dbvars, cur>>

\* ------------------------------------------------------- specifications
\* Sessions: two clients that register, log in under any credentials, send
\* DMs under their own name, log out, delete their account and go away.
Next ==
    \/ Deliver
    \/ \E s \in Conns : Accept(s)
    \/ \E s \in Conns : ClientClose(s)
    \/ \E s \in Conns : Disconnect(s)
    \/ \E s \in Conns : ForcedCleanup(s)
    \/ \E s \in Conns, kind \in OtherKinds : PreAuthOther(s, kind)
    \/ \E s \in Conns, u \in RegNames, password \in RegPasswords : RegisterCheck(s, u, password)
    \/ \E s \in Conns : RegisterCreate(s)
    \/ \E s \in Conns, u \in SessionUsers, password \in Passwords : LoginCheck(s, u, password)
    \/ \E s \in Conns : LoginBind(s)
    \/ \E s \in Conns : HandleLogout(s)
    \/ \E s \in Conns, r \in SessionUsers :
          nextId <= MaxMsgs /\ HandleDm(s, username[s], <<"hi">>, <<r>>, 1)
    \/ \E s \in Conns : HandleDeleteAccount(s)

Spec == Init /\ [][Next]_vars

\* Messaging: the store already holds the three accounts; client 1 is alice's,
\* client 2 is bob's or carol's; DMs carry the session's name, the other
\* request frames carry any username.
InitMsg ==
    /\ users = [u \in Users |-> "pw"]
    /\ messages = {}
    /\ nextId = 1
    /\ clients = [s \in Conns |-> None]
    /\ usernames = [u \in Users |-> NoConn]
    /\ client_buffers = {}
    /\ pc = [t \in {Server} \cup Conns |-> IF t = Server THEN "accept" ELSE "idle"]
    /\ username = [s \in Conns |-> None]
    /\ cur = [s \in Conns |-> <<>>]
    /\ peer = [s \in Conns |-> "open"]
    /\ closed = [s \in Conns |-> FALSE]
    /\ cleanups = {}
    /\ ev = Idle
    /\ sent = <<>>
    /\ NoWire

NextMsg ==
    \/ Deliver
    \/ \E s \in Conns : Accept(s)
    \/ \E s \in Conns : \E u \in Owner[s] : LoginCheck(s, u, "pw")
    \/ \E s \in Conns : LoginBind(s)
    \/ \E s \in Conns, content \in Contents, recips \in OneRecipient :
          nextId <= MaxMsgs /\ HandleDm(s, username[s], content, recips, 1)
    \/ \E s \in Conns, f \in Users, recips \in Conversations, n \in FetchCounts :
          HandleFetch(s, f, recips, n)
    \/ \E s \in Conns, f \in Users, recips \in OneRecipient, ids \in IdSets :
          HandleMarkRead(s, f, recips, ids)
    \/ \E s \in Conns, f \in Users, recips \in OneRecipient, ids \in IdSets :
          HandleDelete(s, f, recips, ids)

SpecMsg == InitMsg /\ [][NextMsg]_vars

\* DM frames that carry any username, relayed kinds; clients may go away
NextDm ==
    \/ Deliver
    \/ \E s \in Conns : Accept(s)
    \/ \E s \in Conns : ClientClose(s)
    \/ \E s \in Conns : Disconnect(s)
    \/ \E s \in Conns : \E u \in Owner[s] : LoginCheck(s, u, "pw")
    \/ \E s \in Conns : LoginBind(s)
    \/ \E s \in Conns, f \in Users, content \in Contents, recips \in OneRecipient :
          nextId <= MaxMsgs /\ HandleDm(s, f, content, recips, 1)
    \/ \E s \in Conns, n \in FetchCounts : HandleFetch(s, username[s], <<>>, n)
    \/ \E s \in Conns : HandleOther(s, username[s], <<"hi">>, <<>>)

SpecDm == InitMsg /\ [][NextDm]_vars

\* Inbox: alice and bob send each other DMs that carry a client timestamp and
\* fetch their own inbox
NextInbox ==
    \/ Deliver
    \/ \E s \in Conns : Accept(s)
    \/ \E s \in Conns : LoginCheck(s, IF s = 1 THEN "alice" ELSE "bob", "pw")
    \/ \E s \in Conns : LoginBind(s)
    \/ \E s \in Conns, r \in SessionUsers, ts \in Stamps :
          nextId <= MaxInbox /\ HandleDm(s, username[s], <<"hi">>, <<r>>, ts)
    \/ \E s \in Conns, n \in FetchCounts : HandleFetch(s, username[s], <<>>, n)

SpecInbox == InitMsg /\ [][NextInbox]_vars

\* Store: alice and bob send each other DMs and delete messages of their
\* conversation
NextStore ==
    \/ Deliver
    \/ \E s \in Conns : Accept(s)
    \/ \E s \in Conns : LoginCheck(s, IF s = 1 THEN "alice" ELSE "bob", "pw")
    \/ \E s \in Conns : LoginBind(s)
    \/ \E s \in Conns, r \in SessionUsers :
          nextId <= MaxInbox /\ HandleDm(s, username[s], <<"hi">>, <<r>>, 1)
    \/ \E s \in Conns, r \in SessionUsers, ids \in SUBSET (1..MaxInbox) :
          HandleDelete(s, username[s], <<r>>, ids)

SpecStore == InitMsg /\ [][NextStore]_vars

\* Race: the two halves of handle_dm interleave with the other session's
\* DELETE_ACCOUNT; a client sends nothing once its account is deleted
NextRace ==
    \/ Deliver
    \/ \E s \in Conns : Accept(s)
    \/ \E s \in Conns : LoginCheck(s, IF s = 1 THEN "alice" ELSE "bob", "pw")
    \/ \E s \in Conns : LoginBind(s)
    \/ \E s \in Conns, r \in SessionUsers :
          /\ nextId <= MaxInbox
          /\ username[s] \in Users /\ user_exists(username[s])
          /\ DmCheck(s, username[s], r)
    \/ \E s \in Conns : DmStore(s)
    \/ \E s \in Conns :
          /\ username[s] \in Users /\ user_exists(username[s])
          /\ HandleDeleteAccount(s)

SpecRace == InitMsg /\ [][NextRace]_vars

\* History: each session sends DMs under its own name and fetches its own
\* inbox or its conversation with a peer, as the GUI's chat history does
NextHistory ==
    \/ Deliver
    \/ \E s \in Conns : Accept(s)
    \/ \E s \in Conns : LoginCheck(s, IF s = 1 THEN "alice" ELSE "bob", "pw")
    \/ \E s \in Conns : LoginBind(s)
    \/ \E s \in Conns, r \in SessionUsers :
          nextId <= MaxInbox /\ HandleDm(s, username[s], <<"hi">>, <<r>>, 1)
    \/ \E s \in Conns, n \in FetchCounts : HandleFetch(s, username[s], <<>>, n)
    \/ \E s \in Conns, u \in SessionUsers, n \in FetchCounts :
          HandleFetch(s, username[s], <<u, username[s]>>, n)

SpecHistory == InitMsg /\ [][NextHistory]_vars

\* Peer: a session sends DMs under its own name while the peer's client goes
\* away and the peer's worker cleans up
NextPeer ==
    \/ Deliver
    \/ \E s \in Conns : Accept(s)
    \/ \E s \in Conns : ClientClose(s)
    \/ \E s \in Conns : Disconnect(s)
    \/ \E s \in Conns : LoginCheck(s, IF s = 1 THEN "alice" ELSE "bob", "pw")
    \/ \E s \in Conns : LoginBind(s)
    \/ \E s \in Conns, r \in SessionUsers :
          nextId <= MaxInbox /\ HandleDm(s, username[s], <<"hi">>, <<r>>, 1)
    \/ \E s \in Conns : \E r \in SessionUsers \ {username[s]} :
          nextId <= MaxInbox /\ DmLookup(s, username[s], r)
    \/ \E s \in Conns : DmDeliver(s)

SpecPeer == InitMsg /\ [][NextPeer]_vars

\* Relay: sessions send frames of a relayed kind, to everybody or to one
\* named recipient, while clients go away
NextRelay ==
    \/ Deliver
    \/ \E s \in Conns : Accept(s)
    \/ \E s \in Conns : ClientClose(s)
    \/ \E s \in Conns : Disconnect(s)
    \/ \E s \in Conns : ForcedCleanup(s)
    \/ \E s \in Conns : LoginCheck(s, IF s = 1 THEN "alice" ELSE "bob", "pw")
    \/ \E s \in Conns : LoginBind(s)
    \/ \E s \in Conns, recips \in OneRecipient :
          HandleOther(s, username[s], <<"hi">>, recips)

SpecRelay == InitMsg /\ [][NextRelay]_vars

\* Delete: the two statements of delete_messages interleave with the other
\* session's requests; every frame carries its session's own name and a
\* DELETE lists messages that exist
NextDelete ==
    \/ Deliver
    \/ \E s \in Conns : Accept(s)
    \/ \E s \in Conns : LoginCheck(s, IF s = 1 THEN "alice" ELSE "bob", "pw")
    \/ \E s \in Conns : LoginBind(s)
    \/ \E s \in Conns, r \in SessionUsers :
          nextId <= MaxInbox /\ HandleDm(s, username[s], <<"hi">>, <<r>>, 1)
    \/ \E s \in Conns, ids \in SUBSET (1..MaxInbox) :
          ids # {} /\ HandleMarkRead(s, username[s], <<>>, ids)
    \/ \E s \in Conns, r \in SessionUsers, ids \in SUBSET {m.id : m \in messages} :
          DeleteSelect(s, username[s], r, ids)
    \/ \E s \in Conns : DeleteCommit(s)

SpecDelete == InitMsg /\ [][NextDelete]_vars

\* Shutdown: clients connect, log in and go away; the server is shut down at
\* any moment. Every server thread that can take a step eventually takes it;
\* nothing obliges a client to send or to close.
NextShutdown ==
    \/ Deliver
    \/ \E s \in Conns : Accept(s)
    \/ \E s \in Conns : ClientClose(s)
    \/ \E s \in Conns : Disconnect(s)
    \/ \E s \in Conns : ForcedCleanup(s)
    \/ \E s \in Conns : \E u \in Owner[s] : LoginCheck(s, u, "pw")
    \/ \E s \in Conns : LoginBind(s)
    \/ \E s \in Conns, r \in SessionUsers :
          nextId <= MaxMsgs /\ HandleDm(s, username[s], <<"hi">>, <<r>>, 1)
    \/ Shutdown

ServerSteps ==
    \/ Deliver
    \/ \E s \in Conns : Disconnect(s)
    \/ \E s \in Conns : ForcedCleanup(s)
    \/ \E s \in Conns : LoginBind(s)

SpecShutdown == InitMsg /\ [][NextShutdown]_vars /\ WF_vars(ServerSteps)

\* Frames: clients log in, go away, and send frames the codec cannot decode
NextFrames ==
    \/ Deliver
    \/ \E s \in Conns : Accept(s)
    \/ \E s \in Conns : ClientClose(s)
    \/ \E s \in Conns : Disconnect(s)
    \/ \E s \in Conns : ForcedCleanup(s)
    \/ \E s \in Conns : \E u \in Owner[s] : LoginCheck(s, u, "pw")
    \/ \E s \in Conns : LoginBind(s)
    \/ \E s \in Conns : HandleLogout(s)
    \/ \E s \in Conns : DecodeError(s)

SpecFrames == InitMsg /\ [][NextFrames]_vars

\* Wire: two requests are encoded by one codec, cut anywhere into two
\* segments and received by the worker's buffer loop
InitWire ==
    /\ users = [u \in Users |-> "pw"]
    /\ messages = {}
    /\ nextId = 1
    /\ clients = [s \in Conns |-> None]
    /\ usernames = [u \in Users |-> NoConn]
    /\ client_buffers = {}
    /\ pc = [t \in {Server} \cup Conns |-> IF t = Server THEN "accept" ELSE "idle"]
    /\ username = [s \in Conns |-> None]
    /\ cur = [s \in Conns |-> <<>>]
    /\ peer = [s \in Conns |-> "open"]
    /\ closed = [s \in Conns |-> FALSE]
    /\ cleanups = {}
    /\ ev = Idle
    /\ sent = <<>>
    /\ codec \in Codecs
    /\ reqs \in {<<r1, r2>> : r1 \in Requests, r2 \in Requests}
    /\ parts = <<>>
    /\ buffer = <<>>
    /\ emitted = <<>>
    /\ decoded = <<>>
    /\ sending = <<>>
    /\ received = <<>>
    /\ noise = <<>>

\* Noise: a binary client sends a bad header and then two requests
InitNoise ==
    /\ users = [u \in Users |-> "pw"]
    /\ messages = {}
    /\ nextId = 1
    /\ clients = [s \in Conns |-> None]
    /\ usernames = [u \in Users |-> NoConn]
    /\ client_buffers = {}
    /\ pc = [t \in {Server} \cup Conns |-> IF t = Server THEN "accept" ELSE "idle"]
    /\ username = [s \in Conns |-> None]
    /\ cur = [s \in Conns |-> <<>>]
    /\ peer = [s \in Conns |-> "open"]
    /\ closed = [s \in Conns |-> FALSE]
    /\ cleanups = {}
    /\ ev = Idle
    /\ sent = <<>>
    /\ codec = "custom"
    /\ reqs \in {<<r1, r2>> : r1, r2 \in {r \in Requests : Size(r.content) < MAX_CONTENT_SIZE}}
    /\ parts = <<>>
    /\ buffer = <<>>
    /\ emitted = <<>>
    /\ decoded = <<>>
    /\ sending = <<>>
    /\ received = <<>>
    /\ noise \in BadHeaders

NextNoise ==
    \/ \E k \in Cuts(NoisyStream) \cup {Size(NoisyStream)} : SendNoisy(k)
    \/ Receive

SpecNoise == InitNoise /\ [][NextNoise]_vars

\* Write: two workers each push one stored DM to the same binary connection
InitWrite ==
    /\ users = [u \in Users |-> "pw"]
    /\ messages = {}
    /\ nextId = 1
    /\ clients = [s \in Conns |-> None]
    /\ usernames = [u \in Users |-> NoConn]
    /\ client_buffers = {}
    /\ pc = [t \in {Server} \cup Conns |-> IF t = Server THEN "accept" ELSE "idle"]
    /\ username = [s \in Conns |-> None]
    /\ cur = [s \in Conns |-> <<>>]
    /\ peer = [s \in Conns |-> "open"]
    /\ closed = [s \in Conns |-> FALSE]
    /\ cleanups = {}
    /\ ev = Idle
    /\ sent = <<>>
    /\ codec = "custom"
    /\ reqs \in {<<[r EXCEPT !.message_id = <<1>>], [r EXCEPT !.message_id = <<2>>]>> :
                    r \in {q \in Requests : q.message_type = "dm" /\ Len(q.content) > 1}}
    /\ parts = <<>>
    /\ buffer = <<>>
    /\ emitted = <<>>
    /\ decoded = <<>>
    /\ sending = <<ResponseFrame(reqs[1]), ResponseFrame(reqs[2])>>
    /\ received = <<>>
    /\ noise = <<>>

NextWrite ==
    \E w \in {1, 2} : \E k \in Pieces(w) : SockSend(w, k)

SpecWrite == InitWrite /\ [][NextWrite]_vars

NextWire ==
    \/ RoundTrip
    \/ \E k \in Cuts(Stream) : Send(k)
    \/ Receive

SpecWire == InitWire /\ [][NextWire]_vars

\* ------------------------------------------------------------ properties
\* the frames the last step wrote to connection t, in order
SentTo(t) == SelectSeq(sent, LAMBDA w : w.to = t)

Registered == {t \in Conns : clients[t] # None}

\* C1: the two registry maps are inverses of each other: every registered
\* connection is the one its username maps to, and every registered username
\* maps to a connection registered under that name.
C1_RegistryInverse ==
    /\ \A s \in Conns : clients[s] # None => usernames[clients[s]] = s
    /\ \A u \in Users : usernames[u] # NoConn => clients[usernames[u]] = u

\* C2: a request other than LOGIN or REGISTER on an unauthenticated connection
\* is answered with one ERROR response to that connection and nothing to any
\* other, the connection is terminated, and the store and the registry stay
\* as they were.
C2_PreAuthRejected ==
    [][ev'.kind = "login_required" =>
         LET s == ev'.conn
         IN /\ Len(sent') = 1
            /\ sent'[1].to = s
            /\ sent'[1].frame.status = "error"
            /\ pc'[s] = "done"
            /\ closed'[s]
            /\ UNCHANGED <<users, messages, nextId, clients, usernames>>]_vars

\* a pre-auth request was rejected while another session was registered, and
\* the ERROR reached the client
C2_Witness ==
    /\ ev.kind = "login_required"
    /\ ev.type = "dm"
    /\ sent[1].ok
    /\ Registered # {}

\* C3: a LOGIN that is rejected (empty password, wrong credentials, username
\* already logged in) is answered with one ERROR response, the connection is
\* terminated, the registry is unchanged, and every other worker, the holder
\* of the username among them, is left as it was.
C3_LoginRejected ==
    [][(ev'.kind = "login_check" /\ ev'.outcome # "ok") =>
         LET s == ev'.conn
         IN /\ Len(sent') = 1
            /\ sent'[1].to = s
            /\ sent'[1].frame.status = "error"
            /\ pc'[s] = "done"
            /\ closed'[s]
            /\ UNCHANGED <<clients, usernames, users>>
            /\ \A t \in Conns \ {s} :
                  /\ pc'[t] = pc[t]
                  /\ closed'[t] = closed[t]
                  /\ username'[t] = username[t]
                  /\ (t \in client_buffers') = (t \in client_buffers)
            /\ ev'.outcome = "already_logged_in" =>
                  /\ ev'.holder # s
                  /\ clients'[ev'.holder] = ev'.user
                  /\ usernames'[ev'.user] = ev'.holder]_vars

\* a LOGIN was rejected because the name is held by a session that is still
\* in its loop with its socket open
C3_Witness ==
    /\ ev.kind = "login_check"
    /\ ev.outcome = "already_logged_in"
    /\ pc[ev.holder] = "recv"
    /\ ~closed[ev.holder]
    /\ peer[ev.holder] = "open"
    /\ ev.holder \in client_buffers
    /\ username[ev.holder] = ev.user

\* C4: once LOGOUT is dispatched the worker has left its loop and cleanup has
\* run: the connection is out of the registry, closed, and the remaining
\* sessions were sent the logout notice.
C4_LogoutCleansUp ==
    ev.kind = "logout" =>
        /\ pc[ev.conn] = "done"
        /\ closed[ev.conn]
        /\ clients[ev.conn] = None
        /\ usernames[ev.user] # ev.conn
        /\ \A t \in Registered :
              \E i \in DOMAIN sent : /\ sent[i].to = t
                                     /\ sent[i].frame.data.message_type = "logout"
                                     /\ sent[i].frame.data.username = ev.user

\* C5: once DELETE_ACCOUNT has succeeded the worker has left its loop and
\* cleanup has run: the connection is out of the registry and closed, so no
\* later frame of it is dispatched.
C5_DeleteAccountCleansUp ==
    (ev.kind = "delete_account" /\ ev.ok) =>
        /\ pc[ev.conn] = "done"
        /\ closed[ev.conn]
        /\ clients[ev.conn] = None
        /\ usernames[ev.user] # ev.conn

\* C6: a DM with content from an authenticated sender to an existing recipient
\* stores exactly one row under a fresh id; the stored message with that id is
\* written back to the sender's connection and, when the recipient is online,
\* to the recipient's connection; when the recipient is offline the row is
\* unread and among the rows the recipient's inbox FETCH returns.
C6_DmStoredEchoedDelivered ==
    (ev.kind = "dm" /\ ev.outcome = "stored") =>
        LET r == ev.req.recipients[1]
            rows == {m \in messages : m.id = ev.id}
            carries(w) == w.frame.data.message_type = "dm" /\ w.frame.data.message_id = ev.id
        IN /\ Cardinality(rows) = 1
           /\ \A m \in messages \ rows : m.id < ev.id
           /\ \A m \in rows : m.recipient = r /\ m.content = ev.req.content
           /\ \E i \in DOMAIN sent : sent[i].to = ev.conn /\ carries(sent[i])
           /\ usernames[r] # NoConn =>
                 \E i \in DOMAIN sent : sent[i].to = usernames[r] /\ carries(sent[i])
           /\ usernames[r] = NoConn =>
                 /\ \A m \in rows : ~m.read
                 /\ \E i \in DOMAIN get_unread_messages(messages, r, DEFAULT_FETCH) :
                       get_unread_messages(messages, r, DEFAULT_FETCH)[i].message_id = ev.id

\* C7: a frame that carries a DM is written only to connections authenticated
\* as the sender or as the recipient of that DM.
C7_DmOnlyToParties ==
    \A i \in DOMAIN sent :
        LET d == sent[i].frame.data
        IN d.message_type = "dm" =>
             username[sent[i].to] \in {d.username, d.recipients[1]}

C9_DeleteAccountNotifies ==
    (ev.kind = "delete_account" /\ ev.ok) =>
        \A t \in Registered \ {ev.conn} :
            \E i, j \in DOMAIN sent :
                /\ i < j
                /\ sent[i].to = t
                /\ sent[i].frame.data.message_type = "delete_account"
                /\ sent[i].frame.data.content = <<"account_deleted", ev.user>>
                /\ sent[j].to = t
                /\ sent[j].frame.data.message_type = "login"
                /\ ev.user \notin Range(sent[j].frame.data.recipients)
                /\ ev.user \notin Range(sent[j].frame.data.active_users)

\* C10: after a successful LOGIN the frame that follows LOGIN SUCCESS on the
\* connection is the unread notice exactly when the user has a message with
\* read = false, and the notice states how many there are.
C10_UnreadNoticeAtLogin ==
    ev.kind = "login" =>
        LET ws == SentTo(ev.conn)
            n == Cardinality({m \in messages : m.recipient = ev.user /\ ~m.read})
        IN \A i \in DOMAIN ws :
             (ws[i].frame.data.message_type = "login" /\ ws[i].ok) =>
                 IF n > 0
                 THEN /\ Len(ws) = i + 1
                      /\ ws[i + 1].frame.data.message_type = "chat"
                      /\ ws[i + 1].frame.data.content = <<"unread_messages", n>>
                 ELSE Len(ws) = i

\* a user logged in with an unread message and was written the notice
C10_Witness ==
    /\ ev.kind = "login"
    /\ \E m \in messages : m.recipient = ev.user /\ ~m.read
    /\ sent[Len(sent)].to = ev.conn
    /\ sent[Len(sent)].ok
    /\ sent[Len(sent)].frame.data.message_type = "chat"

\* C11: an inbox FETCH writes to the caller, one frame each, the first
\* min(k, fetch_count) of the caller's k unread messages in the order in which
\* they were stored, with fetch_count 10 when the request has none.
C11_InboxOldestFirst ==
    (ev.kind = "fetch" /\ Len(ev.req.recipients) <= 1) =>
        LET ids == {m.id : m \in {x \in messages : x.recipient = ev.user /\ ~x.read}}
            lim == IF ev.fetch_count = 0 THEN 10 ELSE ev.fetch_count
            want == Limit(SeqOfSet(ids), lim)
            got == SentTo(ev.conn)
        IN /\ Len(sent) = Len(got)
           /\ Len(got) = Len(want)
           /\ \A i \in DOMAIN got : /\ got[i].frame.data.message_type = "dm"
                                     /\ got[i].frame.data.message_id = want[i]

\* C12: a user's unread count drops only in a MARK_READ, DELETE or
\* DELETE_ACCOUNT step; a DM step and a FETCH step leave the read flag of
\* every stored message as it was, and the message a DM step stores is unread
\* whether or not it was delivered live.
C12_UnreadDropsOnlyByMarkOrDelete ==
    [][/\ (\E u \in Users :
             Cardinality({m \in messages' : m.recipient = u /\ ~m.read})
               < Cardinality({m \in messages : m.recipient = u /\ ~m.read}))
            => ev'.kind \in {"mark_read", "delete", "delete_account"}
       /\ ev'.kind \in {"dm", "fetch"} =>
             \A m \in messages : \E n \in messages' : n.id = m.id /\ n.read = m.read
       /\ (ev'.kind = "dm" /\ ev'.outcome = "stored") =>
             \A n \in messages' : n.id = ev'.id => ~n.read]_vars

\* a DM was delivered live to its online recipient and is still unread
C12_Witness ==
    /\ ev.kind = "dm"
    /\ ev.outcome = "stored"
    /\ \E m \in messages : m.id = ev.id /\ m.delivered /\ ~m.read
    /\ \E i \in DOMAIN sent : sent[i].ok /\ sent[i].to # ev.conn

\* C13: after a MARK_READ by sender name or by message ids the caller's
\* connection is written a notification whose unread_count is the number of
\* stored messages addressed to the caller with read = false; after a
\* MARK_READ naming a sender no unread message from that sender to the caller
\* is left.
C13_MarkReadNotifiesCaller ==
    (ev.kind = "mark_read" /\ (ev.req.recipients # <<>> \/ ev.req.message_ids # {})) =>
        LET n == Cardinality({m \in messages : m.recipient = ev.user /\ ~m.read})
        IN /\ \E i \in DOMAIN sent :
                 /\ sent[i].to = ev.conn
                 /\ sent[i].frame.data.message_type = "chat"
                 /\ sent[i].frame.data.unread_count = n
           /\ ev.req.recipients # <<>> =>
                 \A m \in messages :
                     ~(m.sender = ev.req.recipients[1] /\ m.recipient = ev.user /\ ~m.read)

\* C14: a DELETE with ids and a named user notifies the caller and the
\* recipient of each deleted row and nobody else: each of them that is online
\* is written one DELETE_NOTIFICATION with username = caller and unread_count
\* = the number of deleted rows that were unread and addressed to it.
C14_DeleteNotifiesTargets ==
    [][(ev'.kind = "delete" /\ ev'.req.message_ids # {} /\ ev'.req.recipients # <<>>) =>
         LET deleted == messages \ messages'
             targets == {ev'.user} \cup {m.recipient : m \in deleted}
             online == {u \in targets : usernames[u] # NoConn}
             notes(u) == {i \in DOMAIN sent' : sent'[i].to = usernames[u]}
         IN /\ \A i \in DOMAIN sent' :
                  /\ sent'[i].frame.data.message_type = "delete_notification"
                  /\ sent'[i].frame.data.username = ev'.user
                  /\ \E u \in online : sent'[i].to = usernames[u]
            /\ \A u \in online :
                  /\ Cardinality(notes(u)) = 1
                  /\ \A i \in notes(u) :
                        sent'[i].frame.data.unread_count =
                          Cardinality({m \in deleted : m.recipient = u /\ ~m.read})]_vars

\* C15: the message_ids of every DELETE_NOTIFICATION written for a DELETE of
\* the session's own user are exactly the ids of the rows the DELETE removed.
C15_NotificationListsDeletedIds ==
    [][(ev'.kind = "delete" /\ ev'.req.username = ev'.user) =>
         \A i \in DOMAIN sent' :
             sent'[i].frame.data.message_type = "delete_notification" =>
                 sent'[i].frame.data.message_ids = {m.id : m \in messages \ messages'}]_vars

\* C16: a DM whose recipient is not a registered user is answered with an
\* ERROR to the sender's connection; nothing is stored and no connection is
\* written the DM; when the sender's connection took the ERROR it is the only
\* frame written, and the sender's session is still registered under its
\* name and in its loop.
C16_DmUnknownRecipient ==
    [][(ev'.kind = "dm" /\ ev'.req.recipients # <<>>
          /\ users[ev'.req.recipients[1]] = Absent) =>
         LET s == ev'.conn
         IN /\ sent'[1].to = s
            /\ sent'[1].frame.status = "error"
            /\ UNCHANGED <<users, messages, nextId>>
            /\ \A i \in DOMAIN sent' : sent'[i].frame.data.message_type # "dm"
            /\ sent'[1].ok =>
                  /\ Len(sent') = 1
                  /\ UNCHANGED <<clients, usernames, closed>>
                  /\ pc'[s] = "recv"
                  /\ username'[s] = username[s]
                  /\ s \in client_buffers']_vars

\* a DM to an unregistered user was refused while another session was online
C16_Witness ==
    /\ ev.kind = "dm"
    /\ users[ev.req.recipients[1]] = Absent
    /\ sent[1].ok
    /\ Registered \ {ev.conn} # {}
    /\ clients[ev.conn] = ev.user

\* C17: every answer to a REGISTER is one frame to the requesting connection
\* and binds nothing in the registry; a refusal (username format, existing
\* username, empty password, failed insert) is an ERROR and leaves the users
\* as they were, a SUCCESS adds exactly the one user; when the connection
\* took the answer it is still open and unauthenticated in its loop.
C17_RegisterKeepsPreAuth ==
    [][((ev'.kind = "register_check" /\ ev'.outcome # "ok") \/ ev'.kind = "register") =>
         LET s == ev'.conn
             u == ev'.user
         IN /\ Len(sent') = 1
            /\ sent'[1].to = s
            /\ UNCHANGED <<clients, usernames, messages, nextId>>
            /\ clients'[s] = None
            /\ sent'[1].frame.status \in {"error", "success"}
            /\ ev'.kind = "register_check" => sent'[1].frame.status = "error"
            /\ sent'[1].frame.status = "error" => users' = users
            /\ sent'[1].frame.status = "success" =>
                  /\ users[u] = Absent
                  /\ users'[u] # Absent
                  /\ \A v \in Users \ {u} : users'[v] = users[v]
            /\ sent'[1].ok =>
                  /\ pc'[s] = "recv"
                  /\ ~closed'[s]
                  /\ username'[s] = None
                  /\ s \in client_buffers']_vars

\* a connection registered a user and is ready for its LOGIN
C17_Witness ==
    /\ ev.kind = "register"
    /\ ev.outcome = "registration_success"
    /\ sent[1].ok
    /\ pc[ev.conn] = "recv"
    /\ users[ev.user] # Absent

\* C18: of the REGISTERs for one username that reach the insert, the one that
\* finds the name free is answered SUCCESS and every other is answered ERROR
\* and changes nothing; the username exists afterwards; a REGISTER that
\* finds the name taken at its checks is answered ERROR and changes nothing.
C18_RegisterOnce ==
    [][/\ ev'.kind = "register" =>
            LET u == ev'.user
            IN /\ Len(sent') = 1
               /\ sent'[1].to = ev'.conn
               /\ sent'[1].frame.status = (IF users[u] = Absent THEN "success" ELSE "error")
               /\ users'[u] # Absent
               /\ users[u] # Absent => users' = users
       /\ (ev'.kind = "register_check" /\ ev'.user \in Users /\ users[ev'.user] # Absent) =>
            /\ Len(sent') = 1
            /\ sent'[1].to = ev'.conn
            /\ sent'[1].frame.status = "error"
            /\ users' = users]_vars

\* a REGISTER passed the checks and then lost the insert to a concurrent one
C18_Witness ==
    /\ ev.kind = "register"
    /\ ev.outcome = "registration_failed"
    /\ sent[1].ok

\* C19: once a worker has left through its cleanup, the connection has no
\* entry in clients, none in usernames and none in client_buffers.
C19_CleanupLeavesNothing ==
    \A s \in Conns :
        pc[s] = "done" =>
            /\ clients[s] = None
            /\ \A u \in Users : usernames[u] # s
            /\ s \notin client_buffers

\* the logout notices naming u that the last step wrote to connection t
LogoutNotices(t, u) ==
    {i \in DOMAIN sent : /\ sent[i].to = t
                         /\ sent[i].frame.data.message_type = "logout"
                         /\ sent[i].frame.data.username = u}

\* C20: when a session ends by disconnect, by a scheduled cleanup or by
\* LOGOUT, each remaining registered session (after a LOGOUT: each session of
\* another user) is written the logout notice naming its user once if the
\* connection was still registered and not at all if an earlier cleanup had
\* removed it or it never authenticated.
C20_LogoutNoticeOnce ==
    /\ ev.kind \in {"disconnect", "forced_cleanup"} =>
          /\ \A t \in Registered \ {ev.conn} :
                Cardinality(LogoutNotices(t, ev.user)) = (IF ev.registered THEN 1 ELSE 0)
          /\ ~ev.registered => sent = <<>>
    /\ ev.kind = "logout" =>
          \A t \in Registered \ {ev.conn} :
              clients[t] # ev.user => Cardinality(LogoutNotices(t, ev.user)) = 1

\* C21: once shutdown() has run, no connection is accepted any more, and
\* eventually every accepted connection, registered or still before its login,
\* is closed by the server, its worker has left, and the registry is empty.
C21_ShutdownClosesAll ==
    (pc[Server] = "stopped") ~>
        /\ \A s \in Conns : pc[s] \in {"idle", "done"}
        /\ \A s \in Conns : pc[s] = "done" => closed[s]
        /\ \A s \in Conns : clients[s] = None
        /\ \A u \in Users : usernames[u] = NoConn

\* C22: a frame that cannot be decoded is answered with an ERROR response on
\* the connection it came from, and when that answer was taken the worker is
\* still in its loop with its session and registry entry untouched.
C22_DecodeErrorAnswered ==
    [][ev'.kind = "decode_error" =>
         LET s == ev'.conn
         IN /\ sent' # <<>>
            /\ sent'[1].to = s
            /\ sent'[1].frame.status = "error"
            /\ sent'[1].ok =>
                  /\ pc'[s] = "recv"
                  /\ username'[s] = username[s]
                  /\ UNCHANGED <<clients, usernames, closed>>]_vars

\* C23: a request that went through a codec and back is the request that
\* went in, field for field, under the JSON codec and under the binary codec.
C23_RoundTrip ==
    decoded # <<>> => decoded[1] = reqs[1] /\ decoded[2] = reqs[1]

\* the frames the extractor must have emitted once the first n segments of
\* the stream have arrived, and the bytes it must have kept
RECURSIVE SizeAll(_)
SizeAll(ps) == IF ps = <<>> THEN 0 ELSE Size(Head(ps)) + SizeAll(Tail(ps))

Arrived == Take(Stream, Size(Stream) - SizeAll(parts))

Complete(i) == Size(Arrived) >= (IF i = 1 THEN Size(Frame(codec, reqs[1])) ELSE Size(Stream))

ExpectedFrames ==
    (IF Complete(1) THEN <<serialize_message(codec, reqs[1])>> ELSE <<>>)
    \o (IF Complete(2) THEN <<serialize_message(codec, reqs[2])>> ELSE <<>>)

ExpectedBuffer ==
    IF Complete(2) THEN <<>>
    ELSE IF Complete(1) THEN Drop(Arrived, Size(Frame(codec, reqs[1])))
    ELSE Arrived

\* C24: whatever the cut, after each segment the extractor has emitted exactly
\* the frames that have arrived completely, in order, and the buffer holds
\* exactly the bytes of the incomplete frame: nothing and the untouched bytes
\* while the first frame is incomplete, r1 then r2 and an empty buffer at the end.
C24_FramingTransparent ==
    parts # <<>> => emitted = ExpectedFrames /\ buffer = ExpectedBuffer

\* C25: the binary codec and the JSON codec give back the same record for
\* the same message: username, content, type, recipients, message_id,
\* message_ids, fetch_count, password, active_users and unread_count agree.
C25_CodecsAgree ==
    decoded # <<>> =>
        /\ decoded[2].username = decoded[1].username
        /\ decoded[2].content = decoded[1].content
        /\ decoded[2].message_type = decoded[1].message_type
        /\ decoded[2].recipients = decoded[1].recipients
        /\ decoded[2].message_id = decoded[1].message_id
        /\ decoded[2].message_ids = decoded[1].message_ids
        /\ decoded[2].fetch_count = decoded[1].fetch_count
        /\ decoded[2].password = decoded[1].password
        /\ decoded[2].active_users = decoded[1].active_users
        /\ decoded[2].unread_count = decoded[1].unread_count

\* C26: the ids store_message assigns grow strictly, whichever worker stores
\* and whatever was deleted in between: every stored row has an id below the
\* sequence, the sequence never goes back, and a newly stored message gets an
\* id that is larger than every id in the table and not below the sequence,
\* so larger than every id assigned before, deleted or not.
C26_IdsIncrease ==
    [][/\ \A m \in messages : m.id < nextId
       /\ nextId' >= nextId
       /\ (ev'.kind = "dm" /\ ev'.outcome = "stored") =>
             /\ \E m \in messages' : m.id = ev'.id
             /\ \A m \in messages : m.id < ev'.id
             /\ ev'.id >= nextId
             /\ nextId' > ev'.id]_vars

\* a message was stored after the message with the largest id had been deleted
C26_Witness ==
    /\ ev.kind = "dm" /\ ev.outcome = "stored"
    /\ ev.id > 1
    /\ \A m \in messages : m.id = ev.id

\* C27: a request on an authenticated connection acts for the user of that
\* session, whatever username its frame carries: a stored DM has the session's
\* user as its sender, and a FETCH, MARK_READ or DELETE changes or removes
\* only messages that the session's user sent or received.
C27_ActsForSessionUser ==
    [][/\ (ev'.kind = "dm" /\ ev'.outcome = "stored") =>
             \E m \in messages' : m.id = ev'.id /\ m.sender = ev'.user
       /\ ev'.kind \in {"fetch", "mark_read", "delete"} =>
             \A m \in messages \ messages' :
                 m.sender = ev'.user \/ m.recipient = ev'.user]_vars

\* C28: whenever no handler is in the middle of a request, the sender and the
\* recipient of every stored message are existing users, whatever the order
\* in which DMs and account deletions of different sessions were handled.
C28_MessagesHaveUsers ==
    (\A s \in Conns : pc[s] \in {"idle", "recv", "done"}) =>
        \A m \in messages : user_exists(m.sender) /\ user_exists(m.recipient)

\* C29: a message's delivered flag is set only by a step that wrote that
\* message's frame successfully to a connection authenticated as the
\* message's recipient, in a live DM delivery as in an inbox or a
\* conversation FETCH.
C29_DeliveredWasWritten ==
    [][\A m \in messages' :
          (m.delivered /\ ~\E o \in messages : o.id = m.id /\ o.delivered) =>
             \E i \in DOMAIN sent' :
                /\ sent'[i].ok
                /\ sent'[i].frame.data.message_id = m.id
                /\ clients[sent'[i].to] = m.recipient]_vars

\* C30: when the addressed peer is removed from the registry while a DM is
\* being delivered to it, the sender's handler still completes: the sender's
\* worker is back in its receive loop with its session registered, and the
\* stored message stays.
C30_SenderSurvivesPeerLoss ==
    [][ev'.kind = "dm" =>
          /\ pc'[ev'.conn] = "recv"
          /\ clients'[ev'.conn] = clients[ev'.conn]
          /\ ev'.outcome \in {"stored", "key_error"} =>
                \E m \in messages' : m.id = ev'.id]_vars

\* C31: no step writes to a connection while its worker holds the registry
\* lock: the JOIN broadcast of a login, the LOGOUT broadcast of a cleanup and
\* the relay of a frame to everybody or to named recipients all write after
\* the lock is released.
C31_NoWriteUnderLock ==
    [][ev'.kind \in {"login", "disconnect", "other"} => ev'.locked = 0]_vars

\* C32: once two workers have written one frame each to the same connection,
\* the connection holds the two frames whole, one after the other.
C32_FramesContiguous ==
    (sending # <<>> /\ sending[1] = <<>> /\ sending[2] = <<>>) =>
        \/ received = Cat(ResponseFrame(reqs[1]), ResponseFrame(reqs[2]))
        \/ received = Cat(ResponseFrame(reqs[2]), ResponseFrame(reqs[1]))

\* C33: when the write of a stored DM to its online recipient fails, the
\* recipient's connection is scheduled for cleanup or already out of the
\* registry, the message is stored undelivered, and the sender gets the echo
\* that carries the id.
C33_FailedDeliveryCleansUp ==
    [][(ev'.kind = "dm" /\ ev'.outcome = "stored") =>
          \A i \in DOMAIN sent' :
             (~sent'[i].ok /\ sent'[i].to # ev'.conn) =>
                /\ sent'[i].to \in cleanups' \/ clients'[sent'[i].to] = None
                /\ \E m \in messages' : m.id = ev'.id /\ ~m.delivered
                /\ WriteOK(ev'.conn) =>
                      \E j \in DOMAIN sent' :
                         /\ sent'[j].to = ev'.conn /\ sent'[j].ok
                         /\ sent'[j].frame.data.message_id = ev'.id]_vars

\* C34: a delete reports as many deleted rows as it returns entries, the
\* entries are those of the rows it removed, and each entry's was_unread is
\* the read state the row had when it was removed, whatever the other
\* session did meanwhile.
C34_DeleteAtomic ==
    [][ev'.kind = "delete" =>
          /\ ev'.deleted_count = Cardinality(ev'.deleted_info)
          /\ ev'.deleted_info =
                {[id |-> m.id, recipient |-> m.recipient, was_unread |-> ~m.read] :
                   m \in messages \ messages'}]_vars

\* C35: once all the bytes a client sent have been received, every complete
\* frame among them has been extracted, also when an invalid kind byte or a
\* rejected header came before the frames.
C35_FramesAfterNoiseDispatched ==
    (parts # <<>> /\ Head(parts) = <<>>) =>
        emitted = <<serialize_message(codec, reqs[1]), serialize_message(codec, reqs[2])>>

\* the first segment of the noisy stream, once it has been received
FirstSegment == Take(NoisyStream, Size(NoisyStream) - SizeAll(parts))

\* C36: when the first segment, of 5 bytes or more, starts with an invalid
\* kind byte or with a header that announces more than 1,000,000 bytes, the
\* worker emits no frame, keeps the segment without its first 5 bytes, and
\* writes an ERROR response to the client.
C36_BadHeaderSkippedAndReported ==
    (Len(parts) = 2 /\ noise # <<>> /\ Size(FirstSegment) >= 5) =>
        /\ emitted = <<>>
        /\ buffer = Drop(FirstSegment, 5)
        /\ \E i \in DOMAIN sent : sent[i].frame.status = "error"

\* C37: the binary frame of a request whose content is within the content
\* limit, and the frame of the server response that carries that message,
\* announce a payload of at most 1,000,000 bytes and are extracted whole by
\* the frame extractor.
C37_EncodedFrameExtractable ==
    (codec = "custom" /\ decoded # <<>>) =>
        LET request == Custom_frame_message(Custom_serialize_message(reqs[1]))
            response == ResponseFrame(reqs[1])
        IN /\ Unpack(request, 1, 4) <= MAX_PAYLOAD_SIZE
           /\ Custom_extract_message(request).message = <<request>>
           /\ Unpack(response, 1, 4) <= MAX_PAYLOAD_SIZE
           /\ Custom_extract_message(response).message = <<response>>

IsJoin(w, u) == w.frame.data.message_type = "join" /\ w.frame.data.username = u

\* C38: a successful login writes the JOIN notice of the new user to the new
\* session's own connection and after it the LOGIN SUCCESS response, and
\* before that response it writes the JOIN to every other registered
\* connection, which receives it when its client is still there.
C38_JoinBeforeLoginSuccess ==
    [][ev'.kind = "login" =>
          \E j \in DOMAIN sent' :
             /\ sent'[j].to = ev'.conn
             /\ sent'[j].frame.message = <<"login_success">>
             /\ \A t \in Conns :
                   (t = ev'.conn \/ clients[t] # None) =>
                      \E i \in 1..(j - 1) :
                         /\ sent'[i].to = t
                         /\ IsJoin(sent'[i], ev'.user)
                         /\ sent'[i].ok = WriteOK(t)]_vars

C38_Witness ==
    /\ ev.kind = "login"
    /\ \E i, j, k \in DOMAIN sent :
          /\ i < k /\ j < k
          /\ sent[i].to = ev.conn /\ sent[i].ok /\ IsJoin(sent[i], ev.user)
          /\ sent[j].to # ev.conn /\ sent[j].ok /\ IsJoin(sent[j], ev.user)
          /\ sent[k].to = ev.conn /\ sent[k].ok /\ sent[k].frame.message = <<"login_success">>

\* C39: a MARK_READ that lists message ids sets the read flag of the listed
\* messages addressed to the session's user and leaves every other message,
\* and every delivered flag, as it was.
C39_MarkReadOnlyOwnListed ==
    [][(ev'.kind = "mark_read" /\ ev'.req.recipients = <<>> /\ ev'.req.message_ids # {}) =>
          messages' = {IF m.id \in ev'.req.message_ids /\ m.recipient = ev'.user
                       THEN [m EXCEPT !.read = TRUE] ELSE m : m \in messages}]_vars

\* C40: a DELETE that names another user removes only listed messages of the
\* conversation between the session's user and that user, in either
\* direction, and changes no other message; the count is the number of rows
\* removed, 0 when no row matches.
C40_DeleteOnlyConversationListed ==
    [][(ev'.kind = "delete" /\ ev'.req.recipients # <<>>
        /\ ev'.req.recipients[1] # ev'.user) =>
          /\ messages' \subseteq messages
          /\ \A m \in messages \ messages' :
                m.id \in ev'.req.message_ids /\ Between(m, ev'.user, ev'.req.recipients[1])
          /\ Cardinality(ev'.rows) = Cardinality(messages \ messages')]_vars
====
